---- MODULE Spec2Model ----
(***************************************************************************)
(* Knowledge ingestion pipeline: Datastore.Ingest over the vector store    *)
(* (pgvector backend) and the metadata index.                              *)
(*                                                                         *)
(* Each Ingest call is a sequence of steps; one step is one access to      *)
(* shared state (index, vector store, embedding model provider) together   *)
(* with the local code up to the next access.  Spec runs the calls one     *)
(* after the other, ConcSpec interleaves the steps of two calls.           *)
(***************************************************************************)
EXTENDS Integers, Sequences, FiniteSets, TLC

VARIABLES
    datasets,   \* index: dataset ID -> embedding provider config (NoCfg: none attached)
    files,      \* index: the File records (with their Document records)
    vstore,     \* vector store: the rows of the embedding table
    provider,   \* s.EmbeddingModelProvider, shared by all calls of one Datastore
    preferNew,  \* KNOW_PREFER_NEW_EMBEDDING_MODEL is set
    strict,     \* KNOW_STRICT_EMBEDDING_CONFIG_CHECK is set
    ncalls,     \* number of Ingest calls started so far
    call,       \* per caller: position and local variables of its Ingest call
    lastOK,     \* history: content of the last Ingest that completed for (dataset, path)
    post,       \* retrieval: the response handed to the similarity postprocessor
    adds,       \* vector store: the AddDocuments calls in progress, goroutine by goroutine
    colls,      \* vector store: the collection table and the CreateCollection calls in progress
    search,     \* vector store: a SimilaritySearch call and its answer
    flowConfig, \* flows: a FlowConfig and the answer of Validate
    xfer        \* client: an export of datasets to a file and its import into another store

vars == <<datasets, files, vstore, provider, preferNew, strict, ncalls, call, lastOK,
          post, adds, colls, search, flowConfig, xfer>>

----------------------------------------------------------------------------
(* Bounds *)

MaxCalls == 2

(* Universe of inputs *)

Procs        == {1, 2}
ExistingIDs  == {"d1", "d2"}
DatasetIDs   == ExistingIDs \cup {"dX"}
Paths        == {"pA", "pB"}
NilFM        == "nil"
Filenames    == {"", "a.txt"}
Models       == {"m1", "m2"}
ProviderTypes == {"openai"}
Configs      == [type : ProviderTypes, model : Models]
NoCfg        == [type |-> "", model |-> ""]
NoEmb        == [text |-> "", model |-> "", by |-> <<0, 0>>]

\* Contents: "c0" is empty, "c1" and "c2" are two versions of a text file,
\* "cBad" is a text file that fails to parse, "cBin" has a type without loader,
\* "cUnk" is content whose type cannot be detected.
Contents     == {"c0", "c1", "c2", "cBad", "cBin", "cUnk"}

\* IngestOpts.ExtraMetadata: none, or a map that names every key Ingest sets
\* itself and one key of its own
NoExtra      == [k \in {} |-> ""]
EvilExtra    == [k \in {"filename", "absPath", "fileSize", "embeddingModel", "tag"} |->
                    IF k = "tag" THEN "t" ELSE "evil"]

\* what the ingest command is pointed at
PathKinds    == {"file", "dir", "zip", "ws"}

\* the calls with plain options: no extra metadata, a directory walk without
\* --err-on-unsupported-file
PlainInputs(ds, names, cs, fms) ==
    [datasetID : ds, filename : names, content : cs, fm : fms,
     extra : {NoExtra}, flag : {FALSE}, kind : {"dir"}]

\* The calls of Spec: every content at path pA of dataset d1, one file at a
\* second path and one in a second dataset, a call into a dataset that does
\* not exist, calls without FileMetadata, a call without filename, a call
\* with extra metadata, a file without loader under each setting of the
\* ingest command
Inputs ==
    PlainInputs({"d1"}, {"a.txt"}, Contents, {"pA"})
    \cup PlainInputs({"d1"}, {"a.txt"}, {"c1"}, {"pB"})
    \cup PlainInputs({"d2"}, {"a.txt"}, {"c1"}, {"pA"})
    \cup PlainInputs({"dX"}, {"a.txt"}, {"c1"}, {"pA"})
    \cup PlainInputs({"d1"}, {"a.txt"}, {"c1", "cBin"}, {NilFM})
    \cup PlainInputs({"d1"}, {""}, {"c1"}, {"pA"})
    \cup [datasetID : {"d1"}, filename : {"a.txt"}, content : {"c1"}, fm : {"pA"},
          extra : {EvilExtra}, flag : {FALSE}, kind : {"dir"}]
    \cup [datasetID : {"d1"}, filename : {"a.txt"}, content : {"cBin"}, fm : {"pA"},
          extra : {NoExtra}, flag : BOOLEAN, kind : PathKinds]

----------------------------------------------------------------------------
(* Pure helpers *)

\* the messages Ingest wraps the errors of its collaborators in
ErrMismatch     == "mismatching embedding provider configs"
ErrFlow         == "ingestion flow failed"
ErrRemove       == "failed to remove existing documents"
ErrAddDocuments == "failed to add documents"
ErrCreateFile_AsAddDocuments == "failed to add documents"
ErrCreateFile   == "failed to create file"
ErrUnsupported  == "unsupported file type"
ErrNotFound     == "dataset not found"

OkRes(ids)  == [ids |-> ids, err |-> ""]
ErrRes(e)   == [ids |-> <<>>, err |-> e]
NoRes       == [ids |-> <<>>, err |-> "pending"]

\* filetypes.GetFiletype: "" stands for the error return
GetFiletype(filename, content) ==
    CASE content = "cUnk" -> ""
      [] content = "cBin" -> "bin"
      [] OTHER            -> "text"

\* IngestionFlow.FillDefaults: only text has a default loader
HasLoader(filetype) == filetype = "text"

\* Loader + splitter of the default text flow: the chunk texts in split order
SplitTexts(content) ==
    CASE content = "c1" -> <<"x">>
      [] content = "c2" -> <<"x", "y">>
      [] OTHER          -> <<>>

FlowFails(content) == content = "cBad"

\* ClientIngest.run, lines 80-91: a single file and a workspace file always
\* fail on an unsupported type, a directory or archive walk follows the flag
ErrOnUnsupportedFile(flag, kind) ==
    IF kind = "ws" THEN TRUE
    ELSE IF kind = "file" THEN TRUE
    ELSE flag

\* ingestPaths: the error it records for a file, given the error of Ingest
IngestFileErr(err, errOnUnsupportedFile) ==
    IF err = ErrUnsupported /\ ~errOnUnsupportedFile THEN "" ELSE err

\* the local variables of a call; lookedUp, fileErr, configured, snapV, snapF
\* and reingest are history
IdleCall ==
    [pc |-> "idle", id |-> 0, datasetID |-> "", filename |-> "", content |-> "",
     fm |-> NilFM, extra |-> NoExtra, errOnUnsupportedFile |-> FALSE,
     ds |-> NoCfg, isDuplicate |-> "", isDupe |-> "", filetype |-> "",
     metaModel |-> "", docs |-> <<>>, res |-> NoRes, fileErr |-> "",
     lookedUp |-> {},
     configured |-> NoCfg, snapV |-> {}, snapF |-> {}, reingest |-> FALSE]

----------------------------------------------------------------------------
(* Embedding model provider *)

\* embeddings.AsEmbeddingModelProviderConfig: the provider's current config
AsEmbeddingModelProviderConfig(prov) == prov

\* EmbeddingModelProvider.UseEmbeddingModel: switch the model of the provider
UseEmbeddingModel(prov, model) == [prov EXCEPT !.model = model]

\* embeddings.CompareRequiredFields: TRUE when the required fields agree
CompareRequiredFields(a, b) == a = b

\* the embedding function: a vector belongs to its text and model; two
\* invocations need not return the same bits, so the vector also names the
\* invocation (the document it was computed for)
Embed(text, model, by) == [text |-> text, model |-> model, by |-> by]

\* Ingest, line 55: the dataset has no embedding config attached yet
NeedsBinding_Always(dsCfg) == TRUE
NeedsBinding(dsCfg) == dsCfg = NoCfg

\* Ingest, lines 80-86: the provider after the model name check
ProviderAfterModelCheck_NoSwitch(prov, dsCfg, prefer) == prov
ProviderAfterModelCheck(prov, dsCfg, prefer) ==
    IF prov.model # dsCfg.model /\ ~prefer
    THEN UseEmbeddingModel(prov, dsCfg.model)
    ELSE prov

\* Ingest, lines 88-94: the strict check rejects the call
StrictCheckFails(isStrict, prov, dsCfg) ==
    isStrict /\ ~CompareRequiredFields(prov, dsCfg)

----------------------------------------------------------------------------
(* Deduplication policies *)

DedupNames == {"", "always", "bogus"}
DedupFuncs == {"nil", "fnTrue", "fnFalse", "fnErr"}

\* the registry of named policies
IsDuplicateFuncs == [n \in {"upsert", "always"} |->
                        IF n = "upsert" THEN "DedupeUpsert" ELSE "AlwaysDuplicate"]

\* Ingest, lines 98-107: the policy in force ("" for an unknown name)
SelectDedup(name, fn) ==
    IF name # ""
    THEN IF name \in DOMAIN IsDuplicateFuncs THEN IsDuplicateFuncs[name] ELSE ""
    ELSE IF fn # "nil" THEN fn ELSE "DedupeUpsert"

\* the verdict of a policy: "true", "false" or "err"
IsDuplicate(policy) ==
    CASE policy = "DedupeUpsert"    -> "false"
      [] policy = "AlwaysDuplicate" -> "true"
      [] policy = "fnTrue"          -> "true"
      [] policy = "fnFalse"         -> "false"
      [] OTHER                      -> "err"

----------------------------------------------------------------------------
(* Vector store (pgvector) and index *)

RowsFor(rows, coll, absPath) ==
    {r \in rows : r.coll = coll /\ r.meta.absPath = absPath}

\* VectorStore.RemoveDocument with a where filter on absPath
RemoveDocument(rows, coll, absPath) == rows \ RowsFor(rows, coll, absPath)

\* VectorStore.GetDocuments over all collections, content equal to text
GetDocuments(rows, text) == {r \in rows : r.content = text}

\* AddDocuments, line 329: the documents the embedding function is invoked for
ToEmbed_All(docs) == DOMAIN docs
ToEmbed(docs) == {i \in DOMAIN docs : docs[i].emb = NoEmb}

\* VectorStore.AddDocuments, all embeddings computed and the batch sent:
\* a document that brings an embedding keeps it, the others are embedded
AddDocuments(rows, docs, coll, model) ==
    rows \cup {[id      |-> docs[i].id,
                coll    |-> coll,
                content |-> docs[i].content,
                meta    |-> docs[i].meta,
                emb     |-> IF i \notin ToEmbed(docs) THEN docs[i].emb
                            ELSE Embed(docs[i].content, model, docs[i].id)] : i \in DOMAIN docs}

\* Index.CreateFile: record the File with its Documents
CreateFile(fs, file) == fs \cup {file}

FilesFor(fs, dataset, absPath) ==
    {f \in fs : f.dataset = dataset /\ f.absPath = absPath}

----------------------------------------------------------------------------
(* Datastore.Ingest *)

InFlight(p) == call[p].pc \notin {"idle", "done", "panic"}

Goto(p, pc) == call' = [call EXCEPT ![p].pc = pc]

\* the call returns: its result stays, the locals that die with the frame are dropped
Frame(c, pc, res) ==
    [IdleCall EXCEPT !.pc = pc, !.res = res, !.id = c.id, !.datasetID = c.datasetID,
                     !.fm = c.fm, !.isDuplicate = c.isDuplicate, !.isDupe = c.isDupe,
                     !.ds = c.ds, !.configured = c.configured,
                     !.errOnUnsupportedFile = c.errOnUnsupportedFile,
                     !.fileErr = IngestFileErr(res.err, c.errOnUnsupportedFile),
                     !.lookedUp = c.lookedUp,
                     !.snapV = c.snapV, !.snapF = c.snapF, !.reingest = c.reingest]

Return(p, res) == call' = [call EXCEPT ![p] = Frame(call[p], "done", res)]

\* a nil dereference ends the call without a result
Panic(p) == call' = [call EXCEPT ![p] = Frame(call[p], "panic", NoRes)]

\* FileMetadata.Size of the file at a path
SizeOf(fm) == <<"size", fm>>

\* Ingest, lines 164-169: the mandatory metadata, then the caller's extra
\* metadata under the keys that are still free
Metadata_ExtraWins(filename, fm, model, extra) ==
    LET base == [filename |-> filename, absPath |-> fm, fileSize |-> SizeOf(fm),
                 embeddingModel |-> model]
    IN  [k \in DOMAIN base \cup DOMAIN extra |->
            IF k \in DOMAIN extra THEN extra[k] ELSE base[k]]
Metadata(filename, fm, model, extra) ==
    LET base == [filename |-> filename, absPath |-> fm, fileSize |-> SizeOf(fm),
                 embeddingModel |-> model]
    IN  [k \in DOMAIN base \cup DOMAIN extra |->
            IF k \in DOMAIN base THEN base[k] ELSE extra[k]]

\* vs.SortAndEnsureDocIndex: order the documents by their index (stable) and
\* number them from 0
RECURSIVE SortByIndex(_)
SortByIndex(docs) ==
    IF docs = <<>> THEN <<>>
    ELSE LET m == CHOOSE i \in DOMAIN docs :
                    \A j \in DOMAIN docs :
                       \/ docs[i].index < docs[j].index
                       \/ docs[i].index = docs[j].index /\ i <= j
             rest == [k \in 1..(Len(docs) - 1) |-> IF k < m THEN docs[k] ELSE docs[k + 1]]
         IN  <<docs[m]>> \o SortByIndex(rest)

SortAndEnsureDocIndex(docs) ==
    LET sorted == SortByIndex(docs)
    IN  [i \in DOMAIN sorted |-> [sorted[i] EXCEPT !.index = i - 1]]

\* Ingest, lines 170-173: the chunks of the flow in split order, each with the
\* metadata of the mandatory transformer
MakeDocs(c) ==
    LET texts == SplitTexts(c.content)
    IN  [i \in DOMAIN texts |->
            [id      |-> <<c.id, i>>,
             content |-> texts[i],
             index   |-> i - 1,
             meta    |-> Metadata(c.filename, c.fm, c.metaModel, c.extra),
             emb     |-> NoEmb]]

\* Ingest, lines 267-290: the File record of the call
MakeFile(c, ids) ==
    [id      |-> c.id,
     dataset |-> c.datasetID,
     name    |-> c.filename,
     absPath |-> IF c.fm # NilFM THEN c.fm ELSE "",
     docs    |-> [i \in DOMAIN ids |-> [id |-> ids[i], index |-> i - 1]]]

NewDatastore ==
    /\ \A p \in Procs : ~InFlight(p)
    /\ provider' \in Configs
    /\ UNCHANGED <<datasets, files, vstore, preferNew, strict, ncalls, call, lastOK>>
    /\ UNCHANGED <<post, adds, colls, search, flowConfig, xfer>>

Ingest_Start(p, inputs) ==
    /\ ~InFlight(p)
    /\ ncalls < MaxCalls
    /\ ncalls' = ncalls + 1
    /\ \E in \in inputs :
         LET c == [IdleCall EXCEPT
                     !.id = ncalls + 1, !.datasetID = in.datasetID,
                     !.filename = in.filename, !.content = in.content, !.fm = in.fm,
                     !.extra = in.extra,
                     !.errOnUnsupportedFile = ErrOnUnsupportedFile(in.flag, in.kind),
                     !.configured = provider, !.snapV = vstore, !.snapF = files,
                     !.reingest = /\ in.datasetID \in ExistingIDs
                                  /\ in.fm # NilFM
                                  /\ lastOK[in.datasetID][in.fm] = in.content,
                     !.pc = "getDataset"]
         IN  call' = [call EXCEPT ![p] =
                        IF in.filename = ""
                        THEN Frame(c, "done", ErrRes("filename is required"))
                        ELSE c]
    /\ UNCHANGED <<datasets, files, vstore, provider, preferNew, strict, lastOK>>
    /\ UNCHANGED <<post, adds, colls, search, flowConfig, xfer>>

Ingest_GetDataset_Create(p) ==
    /\ call[p].pc = "getDataset"
    /\ \/ /\ Return(p, ErrRes("failed to get dataset"))
          /\ UNCHANGED datasets
       \/ /\ call[p].datasetID \notin DOMAIN datasets
          /\ datasets' = [d \in DOMAIN datasets \cup {call[p].datasetID} |->
                            IF d \in DOMAIN datasets THEN datasets[d] ELSE NoCfg]
          /\ call' = [call EXCEPT ![p].ds = NoCfg, ![p].pc = "bind"]
       \/ /\ call[p].datasetID \in DOMAIN datasets
          /\ UNCHANGED datasets
          /\ call' = [call EXCEPT ![p].ds = datasets[call[p].datasetID],
                                  ![p].pc = "bind"]
    /\ UNCHANGED <<files, vstore, provider, preferNew, strict, ncalls, lastOK>>
    /\ UNCHANGED <<post, adds, colls, search, flowConfig, xfer>>

Ingest_GetDataset(p) ==
    /\ call[p].pc = "getDataset"
    /\ \/ Return(p, ErrRes("failed to get dataset"))
       \/ /\ call[p].datasetID \notin DOMAIN datasets
          /\ Return(p, ErrRes(ErrNotFound))
       \/ /\ call[p].datasetID \in DOMAIN datasets
          /\ call' = [call EXCEPT ![p].ds = datasets[call[p].datasetID],
                                  ![p].pc = "bind"]
    /\ UNCHANGED <<datasets, files, vstore, provider, preferNew, strict, ncalls, lastOK>>
    /\ UNCHANGED <<post, adds, colls, search, flowConfig, xfer>>

Ingest_BindConfig(p) ==
    /\ call[p].pc = "bind"
    /\ IF NeedsBinding(call[p].ds)
       THEN \/ /\ Return(p, ErrRes("failed to get embedding model provider config"))
               /\ UNCHANGED datasets
            \/ /\ Return(p, ErrRes("failed to update dataset"))
               /\ UNCHANGED datasets
            \/ LET ncfg == AsEmbeddingModelProviderConfig(provider)
               IN  /\ datasets' = [datasets EXCEPT ![call[p].datasetID] = ncfg]
                   /\ call' = [call EXCEPT ![p].ds = ncfg, ![p].pc = "checkModel"]
       ELSE /\ Goto(p, "checkModel")
            /\ UNCHANGED datasets
    /\ UNCHANGED <<files, vstore, provider, preferNew, strict, ncalls, lastOK>>
    /\ UNCHANGED <<post, adds, colls, search, flowConfig, xfer>>

Ingest_CheckModel(p) ==
    /\ call[p].pc = "checkModel"
    /\ \/ /\ Return(p, ErrRes("failed to get embeddings model provider"))
          /\ UNCHANGED provider
       \/ /\ provider' = ProviderAfterModelCheck(provider, call[p].ds, preferNew)
          /\ Goto(p, "strict")
    /\ UNCHANGED <<datasets, files, vstore, preferNew, strict, ncalls, lastOK>>
    /\ UNCHANGED <<post, adds, colls, search, flowConfig, xfer>>

Ingest_StrictCheck(p) ==
    /\ call[p].pc = "strict"
    /\ IF StrictCheckFails(strict, provider, call[p].ds)
       THEN Return(p, ErrRes(ErrMismatch))
       ELSE Goto(p, "selectDedup")
    /\ UNCHANGED <<datasets, files, vstore, provider, preferNew, strict, ncalls, lastOK>>
    /\ UNCHANGED <<post, adds, colls, search, flowConfig, xfer>>

Ingest_SelectDedup(p) ==
    /\ call[p].pc = "selectDedup"
    /\ \/ \E name \in DedupNames, fn \in DedupFuncs :
            IF SelectDedup(name, fn) = ""
            THEN Return(p, ErrRes("unknown deduplication function"))
            ELSE call' = [call EXCEPT ![p].isDuplicate = SelectDedup(name, fn),
                                      ![p].pc = "filetype"]
       \/ Return(p, ErrRes("failed to generate UUID"))
    /\ UNCHANGED <<datasets, files, vstore, provider, preferNew, strict, ncalls, lastOK>>
    /\ UNCHANGED <<post, adds, colls, search, flowConfig, xfer>>

Ingest_Filetype(p) ==
    /\ call[p].pc = "filetype"
    /\ LET ft == GetFiletype(call[p].filename, call[p].content)
       IN  IF ft = ""
           THEN Return(p, ErrRes("unsupported file type (detection)"))
           ELSE call' = [call EXCEPT ![p].filetype = ft, ![p].pc = "dedup"]
    /\ UNCHANGED <<datasets, files, vstore, provider, preferNew, strict, ncalls, lastOK>>
    /\ UNCHANGED <<post, adds, colls, search, flowConfig, xfer>>

Ingest_Dedup_Continue(p) ==
    /\ call[p].pc = "dedup"
    /\ call' = [call EXCEPT ![p].isDupe = IsDuplicate(call[p].isDuplicate),
                            ![p].pc = "loadFlow"]
    /\ UNCHANGED <<datasets, files, vstore, provider, preferNew, strict, ncalls, lastOK>>
    /\ UNCHANGED <<post, adds, colls, search, flowConfig, xfer>>

Ingest_Dedup(p) ==
    /\ call[p].pc = "dedup"
    /\ LET isDupe == IsDuplicate(call[p].isDuplicate)
           c == [call[p] EXCEPT !.isDupe = isDupe]
       IN  CASE isDupe = "err"  ->
                  call' = [call EXCEPT ![p] = Frame(c, "done", ErrRes("failed to check for duplicates"))]
             [] isDupe = "true" ->
                  call' = [call EXCEPT ![p] = Frame(c, "done", OkRes(<<>>))]
             [] OTHER           ->
                  call' = [call EXCEPT ![p] = [c EXCEPT !.pc = "loadFlow"]]
    /\ UNCHANGED <<datasets, files, vstore, provider, preferNew, strict, ncalls, lastOK>>
    /\ UNCHANGED <<post, adds, colls, search, flowConfig, xfer>>

Ingest_LoadFlow_NoLoaderCheck(p) ==
    /\ call[p].pc = "loadFlow"
    /\ Goto(p, "metadata")
    /\ UNCHANGED <<datasets, files, vstore, provider, preferNew, strict, ncalls, lastOK>>
    /\ UNCHANGED <<post, adds, colls, search, flowConfig, xfer>>

Ingest_LoadFlow(p) ==
    /\ call[p].pc = "loadFlow"
    /\ IF ~HasLoader(call[p].filetype)
       THEN IF call[p].fm = NilFM
            THEN Panic(p)
            ELSE Return(p, ErrRes(ErrUnsupported))
       ELSE Goto(p, "metadata")
    /\ UNCHANGED <<datasets, files, vstore, provider, preferNew, strict, ncalls, lastOK>>
    /\ UNCHANGED <<post, adds, colls, search, flowConfig, xfer>>

Ingest_Metadata(p) ==
    /\ call[p].pc = "metadata"
    /\ IF call[p].fm = NilFM
       THEN Panic(p)
       ELSE call' = [call EXCEPT ![p].metaModel = provider.model, ![p].pc = "runFlow"]
    /\ UNCHANGED <<datasets, files, vstore, provider, preferNew, strict, ncalls, lastOK>>
    /\ UNCHANGED <<post, adds, colls, search, flowConfig, xfer>>

Ingest_RunFlow_NoEmptyCheck(p) ==
    /\ call[p].pc = "runFlow"
    /\ IF FlowFails(call[p].content)
       THEN Return(p, ErrRes(ErrFlow))
       ELSE call' = [call EXCEPT ![p].docs = SortAndEnsureDocIndex(MakeDocs(call[p])),
                                 ![p].pc = "remove"]
    /\ UNCHANGED <<datasets, files, vstore, provider, preferNew, strict, ncalls, lastOK>>
    /\ UNCHANGED <<post, adds, colls, search, flowConfig, xfer>>

Ingest_RunFlow(p) ==
    /\ call[p].pc = "runFlow"
    /\ IF FlowFails(call[p].content)
       THEN Return(p, ErrRes(ErrFlow))
       ELSE IF Len(MakeDocs(call[p])) = 0
            THEN Return(p, OkRes(<<>>))
            ELSE call' = [call EXCEPT ![p].docs = SortAndEnsureDocIndex(MakeDocs(call[p])),
                                      ![p].pc = "remove"]
    /\ UNCHANGED <<datasets, files, vstore, provider, preferNew, strict, ncalls, lastOK>>
    /\ UNCHANGED <<post, adds, colls, search, flowConfig, xfer>>

Ingest_Remove_Skipped(p) ==
    /\ call[p].pc = "remove"
    /\ Goto(p, "reuse")
    /\ UNCHANGED <<datasets, files, vstore, provider, preferNew, strict, ncalls, lastOK>>
    /\ UNCHANGED <<post, adds, colls, search, flowConfig, xfer>>

Ingest_Remove(p) ==
    /\ call[p].pc = "remove"
    /\ \/ /\ Return(p, ErrRes(ErrRemove))
          /\ UNCHANGED <<vstore, lastOK>>
       \/ /\ vstore' = RemoveDocument(vstore, call[p].datasetID, call[p].fm)
          /\ lastOK' = [lastOK EXCEPT ![call[p].datasetID][call[p].fm] = ""]
          /\ Goto(p, "reuse")
    /\ UNCHANGED <<datasets, files, provider, preferNew, strict, ncalls>>
    /\ UNCHANGED <<post, adds, colls, search, flowConfig, xfer>>

\* Datastore.GetDatasetForDocument: the embedding config of the dataset the
\* index records the document under (NoCfg: not recorded, or none attached)
GetDatasetForDocument(fs, dsets, id) ==
    LET holders == {f \in fs : \E i \in DOMAIN f.docs : f.docs[i].id = id}
    IN  IF holders = {} THEN NoCfg
        ELSE dsets[(CHOOSE f \in holders : TRUE).dataset]

\* Ingest, lines 220-253: the embeddings a chunk may take over, those of the
\* documents of the same content whose embeddingModel metadata names the
\* model in use or, without that metadata, whose dataset is bound to it
\* (dsOK: GetDatasetForDocument answers)
ReusableEmbeddings_AnyModel(rows, fs, dsets, text, model, dsOK) ==
    {r.emb : r \in GetDocuments(rows, text)}
ReusableEmbeddings(rows, fs, dsets, text, model, dsOK) ==
    {r.emb : r \in {x \in GetDocuments(rows, text) :
                      IF "embeddingModel" \in DOMAIN x.meta
                      THEN x.meta.embeddingModel = model
                      ELSE /\ dsOK
                           /\ GetDatasetForDocument(fs, dsets, x.id).model = model}}

\* Ingest, lines 203-255.  found: the chunks whose GetDocuments lookup
\* answers; the first qualifying document of the answer gives its embedding
Ingest_Reuse(p) ==
    /\ call[p].pc = "reuse"
    /\ \E reuse \in BOOLEAN, dsOK \in BOOLEAN, found \in SUBSET DOMAIN call[p].docs :
         /\ ~reuse => (found = {} /\ dsOK)
         /\ \E pick \in [DOMAIN call[p].docs -> {r.emb : r \in vstore} \cup {NoEmb}] :
              /\ \A i \in DOMAIN call[p].docs :
                   LET cand == IF i \in found
                               THEN ReusableEmbeddings(vstore, files, datasets,
                                                       call[p].docs[i].content,
                                                       provider.model, dsOK)
                               ELSE {}
                   IN  pick[i] \in IF cand = {} THEN {NoEmb} ELSE cand
              /\ call' = [call EXCEPT
                            ![p].docs = [i \in DOMAIN call[p].docs |->
                                           [call[p].docs[i] EXCEPT !.emb = pick[i]]],
                            ![p].lookedUp = found,
                            ![p].pc = "add"]
    /\ UNCHANGED <<datasets, files, vstore, provider, preferNew, strict, ncalls, lastOK>>
    /\ UNCHANGED <<post, adds, colls, search, flowConfig, xfer>>

Ingest_Add(p) ==
    /\ call[p].pc = "add"
    /\ \/ /\ \E i \in DOMAIN call[p].docs : call[p].docs[i].emb = NoEmb
          /\ Return(p, ErrRes(ErrAddDocuments))
          /\ UNCHANGED vstore
       \/ /\ Return(p, ErrRes(ErrAddDocuments))
          /\ UNCHANGED vstore
       \/ /\ vstore' = AddDocuments(vstore, call[p].docs, call[p].datasetID, provider.model)
          /\ Goto(p, "createFile")
    /\ UNCHANGED <<datasets, files, provider, preferNew, strict, ncalls, lastOK>>
    /\ UNCHANGED <<post, adds, colls, search, flowConfig, xfer>>

Ingest_CreateFile(p) ==
    /\ call[p].pc = "createFile"
    /\ LET docIDs == [i \in DOMAIN call[p].docs |-> call[p].docs[i].id]
       IN  \/ /\ Return(p, ErrRes(ErrCreateFile))
              /\ UNCHANGED <<files, lastOK>>
           \/ /\ files' = CreateFile(files, MakeFile(call[p], docIDs))
              /\ lastOK' = [lastOK EXCEPT ![call[p].datasetID][call[p].fm] = call[p].content]
              /\ Return(p, OkRes(docIDs))
    /\ UNCHANGED <<datasets, vstore, provider, preferNew, strict, ncalls>>
    /\ UNCHANGED <<post, adds, colls, search, flowConfig, xfer>>

----------------------------------------------------------------------------
(* SimilarityPostprocessor.Transform *)

MaxDocs == 3

\* similarity scores and thresholds in tenths
Scores     == {3, 6, 9}
Thresholds == {6, 10}
KeepMins   == 0..MaxDocs

\* no response is being post-processed
NoPost == [responses |-> <<>>, Threshold |-> 0, KeepMin |-> 0, done |-> FALSE,
           out |-> <<>>]

\* the ResultDocuments of response i with the given scores, in the order given
ResultDocuments(i, scores) ==
    [j \in DOMAIN scores |-> [id |-> <<i, j>>, score |-> scores[j]]]

ScoreLists == UNION {[1..n -> Scores] : n \in 0..MaxDocs}

\* the responses of the example: five documents in descending order
ExampleResponses == <<ResultDocuments(1, <<9, 7, 5, 3, 1>>)>>

\* Transform, lines 22-32: the documents still to visit and filteredDocs so far
RECURSIVE FilterDocs_KeepMinBelow(_, _, _, _)
FilterDocs_KeepMinBelow(docs, filteredDocs, threshold, keepMin) ==
    IF docs = <<>> THEN filteredDocs
    ELSE LET doc == Head(docs)
             below == {k \in DOMAIN filteredDocs : filteredDocs[k].score < threshold}
         IN  FilterDocs_KeepMinBelow(
                 Tail(docs),
                 IF doc.score >= threshold THEN Append(filteredDocs, doc)
                 ELSE IF Cardinality(below) < keepMin THEN Append(filteredDocs, doc)
                 ELSE filteredDocs,
                 threshold, keepMin)
RECURSIVE FilterDocs(_, _, _, _)
FilterDocs(docs, filteredDocs, threshold, keepMin) ==
    IF docs = <<>> THEN filteredDocs
    ELSE LET doc == Head(docs)
         IN  FilterDocs(
                 Tail(docs),
                 IF doc.score >= threshold THEN Append(filteredDocs, doc)
                 ELSE IF Len(filteredDocs) < keepMin THEN Append(filteredDocs, doc)
                 ELSE filteredDocs,
                 threshold, keepMin)

\* Transform, lines 19-35: every response is filtered with a filteredDocs of
\* its own
RECURSIVE Transform_SharedFiltered(_, _, _)
Transform_SharedFiltered(responses, threshold, keepMin) ==
    IF responses = <<>> THEN <<>>
    ELSE LET n == Len(responses)
             before == Transform_SharedFiltered(SubSeq(responses, 1, n - 1),
                                                threshold, keepMin)
         IN  Append(before,
                    FilterDocs(responses[n], IF n = 1 THEN <<>> ELSE before[n - 1],
                               threshold, keepMin))
Transform(responses, threshold, keepMin) ==
    [i \in DOMAIN responses |-> FilterDocs(responses[i], <<>>, threshold, keepMin)]

SimilarityPostprocessor_Transform ==
    /\ ~post.done
    /\ post' = [post EXCEPT !.out = Transform(post.responses, post.Threshold, post.KeepMin),
                            !.done = TRUE]
    /\ UNCHANGED <<datasets, files, vstore, provider, preferNew, strict, ncalls, call,
                   lastOK, adds, colls, search, flowConfig, xfer>>

----------------------------------------------------------------------------
(* VectorStore.AddDocuments, goroutine by goroutine, and the rest of Ingest *)

\* VS_PGVECTOR_EMBEDDING_CONCURRENCY: none, one goroutine at a time, or all
\* of them
EmbeddingConcurrencies == {0, 1, 2}

\* no AddDocuments call in progress
IdleAdd ==
    [pc |-> "idle", c |-> IdleCall, docs |-> <<>>, ids |-> <<>>, g |-> <<>>,
     err |-> "", sharedErr |-> "", cancelled |-> FALSE, b |-> <<>>, semaphore |-> 0,
     embeddingConcurrency |-> 0, sent |-> FALSE, res |-> NoRes]

\* the calls of a store with the given embeddingConcurrency
IdleAdds(n) == [p \in Procs |-> [IdleAdd EXCEPT !.embeddingConcurrency = n]]

NoAdds == IdleAdds(0)

\* a document of another file that is in the store before the calls
OtherRow ==
    [id |-> <<9, 1>>, coll |-> "d1", content |-> "x",
     meta |-> Metadata("b.txt", "pB", "m1", NoExtra),
     emb |-> Embed("x", "m1", <<9, 1>>)]

\* AddDocuments, line 344: the document a goroutine works on is the one passed
\* to it when it was started
GoroutineDoc(docs, i) == docs[i]

\* AddDocuments, lines 289 and 314: the IDs returned are those of the
\* documents in the order of docs
ReturnedIDs_QueueOrder(docs, b) == [k \in DOMAIN b |-> b[k].id]
ReturnedIDs(docs, b) == [i \in DOMAIN docs |-> docs[i].id]

\* AddDocuments, line 328: vec is a variable of the goroutine, so the vector
\* queued is the one this goroutine obtained
QueuedVec_Shared(g, i) == g[1].vec
QueuedVec(g, i) == g[i].vec

\* the row an INSERT of the batch writes
InsertedRow(q) ==
    [id |-> q.id, coll |-> q.cid, content |-> q.content, meta |-> q.meta, emb |-> q.vec]

\* the database refuses a batch with a vector without dimensions or with a
\* uuid that is already there
BatchRefused(rows, b) ==
    \/ \E k \in DOMAIN b : b[k].vec = NoEmb
    \/ \E k \in DOMAIN b : \E r \in rows : r.id = b[k].id
    \/ \E k \in DOMAIN b : \E l \in DOMAIN b : k # l /\ b[k].id = b[l].id

\* Ingest, line 259: AddDocuments is called with the sorted chunks of a file;
\* with ReuseEmbeddings the first chunk brings the embedding of the document
\* in the store
Ingest_CallAddDocuments(p) ==
    /\ adds[p].pc = "idle"
    /\ \E content \in {"c1", "c2"}, reuse \in BOOLEAN :
         LET c == [IdleCall EXCEPT !.id = p, !.datasetID = "d1", !.filename = "a.txt",
                                   !.content = content, !.fm = "pA",
                                   !.metaModel = provider.model]
             docs == SortAndEnsureDocIndex(MakeDocs(c))
         IN  adds' = [adds EXCEPT ![p] =
                        [IdleAdd EXCEPT
                           !.pc = "getCollectionUUID",
                           !.embeddingConcurrency = adds[p].embeddingConcurrency,
                           !.c = c,
                           !.docs = IF reuse
                                    THEN [docs EXCEPT ![1].emb = OtherRow.emb]
                                    ELSE docs]]
    /\ UNCHANGED <<datasets, files, vstore, provider, preferNew, strict, ncalls, call,
                   lastOK, post, colls, search, flowConfig, xfer>>

\* AddDocuments, lines 278-348: the collection is looked up, ids is filled
\* and one goroutine per document is started
AddDocuments_Start(p) ==
    /\ adds[p].pc = "getCollectionUUID"
    /\ \/ adds' = [adds EXCEPT ![p].pc = "done", ![p].res = ErrRes(ErrAddDocuments)]
       \/ adds' = [adds EXCEPT
                     ![p].pc = "wait",
                     ![p].err = "nil",
                     ![p].sharedErr = "nil",
                     ![p].ids = ReturnedIDs(adds[p].docs, <<>>),
                     ![p].g = [i \in DOMAIN adds[p].docs |->
                                 [pc |-> "start", vec |-> NoEmb, embErr |-> ""]]]
    /\ UNCHANGED <<datasets, files, vstore, provider, preferNew, strict, ncalls, call,
                   lastOK, post, colls, search, flowConfig, xfer>>

\* the context of the caller is cancelled
Cancel(p) ==
    /\ adds[p].pc = "wait"
    /\ ~adds[p].cancelled
    /\ adds' = [adds EXCEPT ![p].cancelled = TRUE]
    /\ UNCHANGED <<datasets, files, vstore, provider, preferNew, strict, ncalls, call,
                   lastOK, post, colls, search, flowConfig, xfer>>

\* goroutine, lines 320-323: it does not start when the context is done
Goroutine_Begin(p, i) ==
    /\ adds[p].pc = "wait"
    /\ adds[p].g[i].pc = "start"
    /\ adds' = [adds EXCEPT ![p].g[i].pc =
                     IF adds[p].cancelled THEN "done" ELSE "acquire"]
    /\ UNCHANGED <<datasets, files, vstore, provider, preferNew, strict, ncalls, call,
                   lastOK, post, colls, search, flowConfig, xfer>>

Goroutine_Acquire_NoLimit(p, i) ==
    /\ adds[p].pc = "wait"
    /\ adds[p].g[i].pc = "acquire"
    /\ adds' = [adds EXCEPT ![p].semaphore = @ + 1, ![p].g[i].pc = "embed"]
    /\ UNCHANGED <<datasets, files, vstore, provider, preferNew, strict, ncalls, call,
                   lastOK, post, colls, search, flowConfig, xfer>>

\* goroutine, lines 325-327: wait for a free slot
Goroutine_Acquire(p, i) ==
    /\ adds[p].pc = "wait"
    /\ adds[p].g[i].pc = "acquire"
    /\ adds[p].semaphore < adds[p].embeddingConcurrency
    /\ adds' = [adds EXCEPT ![p].semaphore = @ + 1, ![p].g[i].pc = "embed"]
    /\ UNCHANGED <<datasets, files, vstore, provider, preferNew, strict, ncalls, call,
                   lastOK, post, colls, search, flowConfig, xfer>>

\* goroutine, lines 329-333: take the embedding the document brings, or call
\* the embedding function and assign its error to err, the variable of
\* AddDocuments that all goroutines share
Goroutine_Embed(p, i) ==
    /\ adds[p].pc = "wait"
    /\ adds[p].g[i].pc = "embed"
    /\ LET doc == GoroutineDoc(adds[p].docs, i)
       IN  IF doc.emb # NoEmb
           THEN adds' = [adds EXCEPT ![p].g[i] = [pc |-> "queue", vec |-> doc.emb,
                                                  embErr |-> ""]]
           ELSE \/ adds' = [adds EXCEPT
                             ![p].g[i] = [pc |-> "checkErr",
                                          vec |-> Embed(doc.content, provider.model, doc.id),
                                          embErr |-> "nil"],
                             ![p].err = "nil"]
                \/ adds' = [adds EXCEPT
                             ![p].g[i] = [pc |-> "checkErr", vec |-> NoEmb,
                                          embErr |-> "failed"],
                             ![p].err = "failed"]
    /\ UNCHANGED <<datasets, files, vstore, provider, preferNew, strict, ncalls, call,
                   lastOK, post, colls, search, flowConfig, xfer>>

\* goroutine, lines 334-338: read err; on an error record it in sharedErr
\* (the first one wins), cancel the context and return
Goroutine_CheckErr(p, i) ==
    /\ adds[p].pc = "wait"
    /\ adds[p].g[i].pc = "checkErr"
    /\ IF adds[p].err # "nil"
       THEN adds' = [adds EXCEPT
                       ![p].sharedErr = IF @ = "nil" THEN "failed to embed document" ELSE @,
                       ![p].cancelled = TRUE,
                       ![p].semaphore = @ - 1,
                       ![p].g[i].pc = "done"]
       ELSE adds' = [adds EXCEPT ![p].g[i].pc = "queue"]
    /\ UNCHANGED <<datasets, files, vstore, provider, preferNew, strict, ncalls, call,
                   lastOK, post, colls, search, flowConfig, xfer>>

\* goroutine, lines 341-343: queue the INSERT under the queue lock
Goroutine_Queue(p, i) ==
    /\ adds[p].pc = "wait"
    /\ adds[p].g[i].pc = "queue"
    /\ LET doc == GoroutineDoc(adds[p].docs, i)
       IN  adds' = [adds EXCEPT
                      ![p].b = Append(@, [id |-> doc.id, content |-> doc.content,
                                          vec |-> QueuedVec(adds[p].g, i), meta |-> doc.meta,
                                          cid |-> adds[p].c.datasetID]),
                      ![p].semaphore = @ - 1,
                      ![p].g[i].pc = "done"]
    /\ UNCHANGED <<datasets, files, vstore, provider, preferNew, strict, ncalls, call,
                   lastOK, post, colls, search, flowConfig, xfer>>

\* AddDocuments, lines 349-365, and Ingest, lines 260-263: after all
\* goroutines returned, fail with sharedErr or send the batch, which the
\* database executes as a whole or not at all
AddDocuments_SendBatch(p) ==
    /\ adds[p].pc = "wait"
    /\ \A i \in DOMAIN adds[p].g : adds[p].g[i].pc = "done"
    /\ IF adds[p].sharedErr # "nil"
       THEN /\ adds' = [adds EXCEPT ![p].pc = "done", ![p].res = ErrRes(ErrAddDocuments)]
            /\ UNCHANGED vstore
       ELSE \/ /\ adds' = [adds EXCEPT ![p].pc = "done",
                                        ![p].res = ErrRes(ErrAddDocuments)]
               /\ UNCHANGED vstore
            \/ /\ ~adds[p].cancelled
               /\ ~BatchRefused(vstore, adds[p].b)
               /\ vstore' = vstore \cup {InsertedRow(adds[p].b[k]) : k \in DOMAIN adds[p].b}
               /\ adds' = [adds EXCEPT ![p].pc = "createFile", ![p].sent = TRUE,
                                       ![p].ids = ReturnedIDs(adds[p].docs, adds[p].b)]
    /\ UNCHANGED <<datasets, files, provider, preferNew, strict, ncalls, call,
                   lastOK, post, colls, search, flowConfig, xfer>>

\* Ingest, lines 266-304: the File with one Document per returned ID
Ingest_RecordFile(p) ==
    /\ adds[p].pc = "createFile"
    /\ \/ /\ adds' = [adds EXCEPT ![p].pc = "done", ![p].res = ErrRes(ErrCreateFile)]
          /\ UNCHANGED files
       \/ /\ files' = CreateFile(files, MakeFile(adds[p].c, adds[p].ids))
          /\ adds' = [adds EXCEPT ![p].pc = "done", ![p].res = OkRes(adds[p].ids)]
    /\ UNCHANGED <<datasets, vstore, provider, preferNew, strict, ncalls, call,
                   lastOK, post, colls, search, flowConfig, xfer>>

----------------------------------------------------------------------------
(* VectorStore.CreateCollection *)

\* the callers of CreateCollection and the names they ask for
Creators  == {1, 2, 3}
CollNames == {"n1", "n2"}

\* a caller that has not called yet.  res: "nil", "exists" (the error that
\* wraps SQLSTATE 23505) or "failed" (any other error of the database)
IdleTx == [pc |-> "idle", collection |-> "", ErrOnExists |-> FALSE, res |-> "pending"]

\* the collection table is empty, nobody holds pgLockIDCreateCollection
NoColls == [rows |-> {}, lock |-> 0, tx |-> [p \in Creators |-> IdleTx]]

\* createCollectionTableIfNotExists, line 169: UNIQUE (name)
NameTaken_Never(rows, name) == FALSE
NameTaken(rows, name) == \E r \in rows : r.name = name

\* CreateCollection, lines 245-254: begin a transaction
CreateCollection_Begin(p) ==
    /\ colls.tx[p].pc = "idle"
    /\ \E name \in CollNames, e \in BOOLEAN :
         \/ colls' = [colls EXCEPT !["tx"][p] =
                         [pc |-> "lock", collection |-> name, ErrOnExists |-> e,
                          res |-> "pending"]]
         \/ colls' = [colls EXCEPT !["tx"][p] =
                         [pc |-> "done", collection |-> name, ErrOnExists |-> e,
                          res |-> "failed"]]
    /\ UNCHANGED <<datasets, files, vstore, provider, preferNew, strict, ncalls, call,
                   lastOK, post, adds, search, flowConfig, xfer>>

\* CreateCollection, lines 257-260: pg_advisory_xact_lock waits until no
\* other transaction holds the lock
CreateCollection_Lock(p) ==
    /\ colls.tx[p].pc = "lock"
    /\ \/ /\ colls.lock = 0
          /\ colls' = [colls EXCEPT !.lock = p, !["tx"][p].pc = "insert"]
       \/ colls' = [colls EXCEPT !["tx"][p].pc = "done", !["tx"][p].res = "failed"]
    /\ UNCHANGED <<datasets, files, vstore, provider, preferNew, strict, ncalls, call,
                   lastOK, post, adds, search, flowConfig, xfer>>

\* CreateCollection, lines 262-272: the INSERT; on a unique violation the
\* call returns nil unless ErrOnExists is set; the deferred Rollback ends the
\* transaction and with it the lock
CreateCollection_Insert(p) ==
    /\ colls.tx[p].pc = "insert"
    /\ IF NameTaken(colls.rows, colls.tx[p].collection)
       THEN colls' = [colls EXCEPT
                        !.lock = 0,
                        !["tx"][p].pc = "done",
                        !["tx"][p].res = IF colls.tx[p].ErrOnExists THEN "exists" ELSE "nil"]
       ELSE \/ colls' = [colls EXCEPT !["tx"][p].pc = "commit"]
            \/ colls' = [colls EXCEPT !.lock = 0, !["tx"][p].pc = "done",
                                      !["tx"][p].res = "failed"]
    /\ UNCHANGED <<datasets, files, vstore, provider, preferNew, strict, ncalls, call,
                   lastOK, post, adds, search, flowConfig, xfer>>

\* CreateCollection, line 274: the commit makes the row visible and ends the
\* lock; a failed commit leaves no row
CreateCollection_Commit(p) ==
    /\ colls.tx[p].pc = "commit"
    /\ \/ colls' = [colls EXCEPT
                       !.rows = @ \cup {[uuid |-> p, name |-> colls.tx[p].collection]},
                       !.lock = 0,
                       !["tx"][p].pc = "done",
                       !["tx"][p].res = "nil"]
       \/ colls' = [colls EXCEPT !.lock = 0, !["tx"][p].pc = "done",
                                 !["tx"][p].res = "failed"]
    /\ UNCHANGED <<datasets, files, vstore, provider, preferNew, strict, ncalls, call,
                   lastOK, post, adds, search, flowConfig, xfer>>

----------------------------------------------------------------------------
(* VectorStore.SimilaritySearch *)

\* no search: an empty table and no answer
NoSearch ==
    [rows |-> {}, queryEmbedding |-> <<>>, numDocuments |-> 0, collection |-> "",
     where |-> [k \in {} |-> ""], done |-> FALSE, err |-> "", docs |-> <<>>]

\* rows of the embedding table: four of collection d1 with two dimensions,
\* one of d1 with three, one of d2; their lengths are 1 or 5
SearchRows ==
    {[id |-> 1, coll |-> "d1", embedding |-> <<1, 0>>, meta |-> [tag |-> "a"]],
     [id |-> 2, coll |-> "d1", embedding |-> <<3, 4>>, meta |-> [tag |-> "a"]],
     [id |-> 3, coll |-> "d1", embedding |-> <<4, 3>>, meta |-> [tag |-> "b"]],
     [id |-> 4, coll |-> "d1", embedding |-> <<0, 1>>, meta |-> [tag |-> "a"]],
     [id |-> 5, coll |-> "d1", embedding |-> <<1, 0, 0>>, meta |-> [tag |-> "a"]],
     [id |-> 6, coll |-> "d2", embedding |-> <<1, 0>>, meta |-> [tag |-> "a"]]}

QueryEmbeddings == {<<1, 0>>, <<0, 1>>, <<3, 4>>}
NumDocuments    == 0..3
Wheres          == {[k \in {} |-> ""], [tag |-> "a"]}

\* inner product and length of vectors of whole numbers
RECURSIVE Dot(_, _)
Dot(a, b) == IF a = <<>> THEN 0 ELSE Head(a) * Head(b) + Dot(Tail(a), Tail(b))
Norm(a) == CHOOSE n \in 1..5 : n * n = Dot(a, a)

\* the operator <=> of pgvector, cosine distance, in twenty-fifths
CosineDistance(a, b) == 25 - ((25 * Dot(a, b)) \div (Norm(a) * Norm(b)))

\* SimilaritySearch, line 414: similarity = 1 - (embedding <=> $2), in
\* twenty-fifths
Similarity_Distance(embedding, queryEmbedding) == CosineDistance(embedding, queryEmbedding)
Similarity(embedding, queryEmbedding) == 25 - CosineDistance(embedding, queryEmbedding)

\* buildWhereClause, lines 572-576: (cmetadata ->> key) = value for every pair
MatchesWhere(meta, where) ==
    \A k \in DOMAIN where : k \in DOMAIN meta /\ meta[k] = where[k]

\* SimilaritySearch, lines 396-418: the rows of the dimension of the query,
\* of the collection of the given name, that match the where clause
SearchData(rows, queryEmbedding, collection, where) ==
    {r \in rows : /\ Len(r.embedding) = Len(queryEmbedding)
                  /\ r.coll = collection
                  /\ MatchesWhere(r.meta, where)}

\* SimilaritySearch, lines 419-421: ORDER BY similarity DESC, in any order
\* among equal similarities, then LIMIT
Ordered(data, queryEmbedding) ==
    {f \in [1..Cardinality(data) -> data] :
        /\ \A j, k \in DOMAIN f : j # k => f[j] # f[k]
        /\ \A j, k \in DOMAIN f :
              j < k => Similarity(f[j].embedding, queryEmbedding)
                         >= Similarity(f[k].embedding, queryEmbedding)}

Limit(f, n) == SubSeq(f, 1, IF n < Len(f) THEN n ELSE Len(f))

\* SimilaritySearch, lines 378-443: embed the query, run the query, scan the
\* rows into documents
VectorStore_SimilaritySearch ==
    /\ ~search.done
    /\ \/ search' = [search EXCEPT !.done = TRUE, !.err = "failed"]
       \/ \E f \in Ordered(SearchData(search.rows, search.queryEmbedding,
                                       search.collection, search.where),
                            search.queryEmbedding) :
             search' = [search EXCEPT
                          !.done = TRUE,
                          !.docs = [k \in DOMAIN Limit(f, search.numDocuments) |->
                                      [id |-> f[k].id, meta |-> f[k].meta,
                                       score |-> Similarity(f[k].embedding,
                                                            search.queryEmbedding)]]]
    /\ UNCHANGED <<datasets, files, vstore, provider, preferNew, strict, ncalls, call,
                   lastOK, post, adds, colls, flowConfig, xfer>>

----------------------------------------------------------------------------
(* FlowConfig.Validate *)

\* no config: no flows, Validate not called
NoFlowConfig == [Flows |-> [n \in {} |-> {}], done |-> FALSE, err |-> ""]

\* ingestion entries: complete, without filetypes, with a converter with and
\* without a target format
IngestionFlowConfigs ==
    [Filetypes : {<<>>, <<"pdf">>}, Converter : {[Name |-> "", TargetFormat |-> ""]}]
    \cup [Filetypes : {<<"pdf">>},
          Converter : [Name : {"soffice"}, TargetFormat : {"", "pdf"}]]

FlowConfigEntries ==
    [Default   : BOOLEAN,
     Ingestion : UNION {[1..n -> IngestionFlowConfigs] : n \in 0..2},
     Retrieval : {"nil", "set"}]

FlowNames == {"f1", "f2"}

\* Validate, lines 156-167: the first entry in the list that breaks a rule
RECURSIVE ValidateIngestion_NoTargetCheck(_)
ValidateIngestion_NoTargetCheck(ingestion) ==
    IF ingestion = <<>> THEN ""
    ELSE IF Len(Head(ingestion).Filetypes) = 0 THEN "no filetypes specified"
    ELSE ValidateIngestion_NoTargetCheck(Tail(ingestion))
RECURSIVE ValidateIngestion(_)
ValidateIngestion(ingestion) ==
    IF ingestion = <<>> THEN ""
    ELSE IF Len(Head(ingestion).Filetypes) = 0 THEN "no filetypes specified"
    ELSE IF Head(ingestion).Converter.Name # "" /\ Head(ingestion).Converter.TargetFormat = ""
    THEN "converter.targetFormat is required"
    ELSE ValidateIngestion(Tail(ingestion))

\* Validate, lines 141-169: the loop over the flows in the order the map
\* gives them, returning at the first rule broken
RECURSIVE ValidateFlows(_, _, _)
ValidateFlows(flows, order, hasDefault) ==
    IF order = <<>> THEN ""
    ELSE LET flow == flows[Head(order)]
         IN  IF flow.Default /\ hasDefault
             THEN "multiple flows are marked as default"
             ELSE IF Len(flow.Ingestion) = 0 /\ flow.Retrieval = "nil"
             THEN "neither ingestion nor retrieval specified"
             ELSE IF ValidateIngestion(flow.Ingestion) # ""
             THEN ValidateIngestion(flow.Ingestion)
             ELSE ValidateFlows(flows, Tail(order), hasDefault \/ flow.Default)

\* the orders a range over the map can take
MapOrders(flows) ==
    {o \in [1..Cardinality(DOMAIN flows) -> DOMAIN flows] :
        \A j, k \in DOMAIN o : j # k => o[j] # o[k]}

FlowConfig_Validate ==
    /\ ~flowConfig.done
    /\ \E order \in MapOrders(flowConfig.Flows) :
         flowConfig' = [flowConfig EXCEPT
                          !.done = TRUE,
                          !.err = ValidateFlows(flowConfig.Flows, order, FALSE)]
    /\ UNCHANGED <<datasets, files, vstore, provider, preferNew, strict, ncalls, call,
                   lastOK, post, adds, colls, search, xfer>>

----------------------------------------------------------------------------
(* StandaloneClient.ExportDatasets and ImportDatasets *)

\* the documents of the source store: one row per chunk
XferRows ==
    [dataset : {"d1", "d2"}, id : {"i1", "i2"}, path : {"pA", "pB"},
     content : {"c1", "c2"}, meta : {[k |-> "v1"], [k |-> "v2"]}]

NoXfer ==
    [source |-> {}, datasets |-> {}, pc |-> "idle", file |-> "none",
     exportErr |-> "", importErr |-> "", target |-> {}]

\* pgvector.go, lines 557-559: nothing is written, the error is returned
ExportCollectionsToFile(rows, collections) ==
    [err  |-> "function ExportCollectionsToFile not implemented for vectorstore pgvector",
     file |-> "none"]

\* pgvector.go, lines 553-555: nothing is read, the error is returned
ImportCollectionsFromFile(file, rows) ==
    [err  |-> "function ImportCollectionsFromFile not implemented for vectorstore pgvector",
     rows |-> rows]

\* Datastore.ExportDatasetsToFile: the archive holds what the vector store
\* exported for the datasets asked for; its error is the call's error
ExportDatasetsToFile(rows, ids) == ExportCollectionsToFile(rows, ids)

\* Datastore.ImportDatasetsFromFile: the vector store reads the archive
\* into its own rows; its error is the call's error
ImportDatasetsFromFile(file, rows) == ImportCollectionsFromFile(file, rows)

\* get_dataset.go, lines 264-266
StandaloneClient_ExportDatasets ==
    /\ xfer.pc = "idle"
    /\ LET out == ExportDatasetsToFile(xfer.source, xfer.datasets)
       IN  xfer' = [xfer EXCEPT !.pc = "exported",
                                !.file = out.file,
                                !.exportErr = out.err]
    /\ UNCHANGED <<datasets, files, vstore, provider, preferNew, strict, ncalls, call,
                   lastOK, post, adds, colls, search, flowConfig>>

\* get_dataset.go, lines 268-270, called on an empty store with the file
\* the export left
StandaloneClient_ImportDatasets ==
    /\ xfer.pc = "exported"
    /\ LET res == ImportDatasetsFromFile(xfer.file, {})
       IN  xfer' = [xfer EXCEPT !.pc = "imported",
                                !.target = res.rows,
                                !.importErr = res.err]
    /\ UNCHANGED <<datasets, files, vstore, provider, preferNew, strict, ncalls, call,
                   lastOK, post, adds, colls, search, flowConfig>>

----------------------------------------------------------------------------
(* Specifications *)

Init ==
    /\ datasets = [d \in ExistingIDs |-> NoCfg]
    /\ files = {}
    /\ vstore = {}
    /\ provider = [type |-> "openai", model |-> "m1"]
    /\ preferNew \in BOOLEAN
    /\ strict \in BOOLEAN
    /\ ncalls = 0
    /\ call = [p \in Procs |-> IdleCall]
    /\ lastOK = [d \in ExistingIDs |-> [a \in Paths |-> ""]]
    /\ post = NoPost
    /\ adds = NoAdds
    /\ colls = NoColls
    /\ search = NoSearch
    /\ flowConfig = NoFlowConfig
    /\ xfer = NoXfer

SeqProcs == {1}

\* calls one after the other: only caller 1 is active
Next ==
    \/ NewDatastore
    \/ \E p \in SeqProcs : Ingest_Start(p, Inputs)
    \/ \E p \in SeqProcs : Ingest_GetDataset(p)
    \/ \E p \in SeqProcs : Ingest_BindConfig(p)
    \/ \E p \in SeqProcs : Ingest_CheckModel(p)
    \/ \E p \in SeqProcs : Ingest_StrictCheck(p)
    \/ \E p \in SeqProcs : Ingest_SelectDedup(p)
    \/ \E p \in SeqProcs : Ingest_Filetype(p)
    \/ \E p \in SeqProcs : Ingest_Dedup(p)
    \/ \E p \in SeqProcs : Ingest_LoadFlow(p)
    \/ \E p \in SeqProcs : Ingest_Metadata(p)
    \/ \E p \in SeqProcs : Ingest_RunFlow(p)
    \/ \E p \in SeqProcs : Ingest_Remove(p)
    \/ \E p \in SeqProcs : Ingest_Reuse(p)
    \/ \E p \in SeqProcs : Ingest_Add(p)
    \/ \E p \in SeqProcs : Ingest_CreateFile(p)

Spec == Init /\ [][Next]_vars

\* The calls of ConcSpec: two versions of one file, ingested into d1 at path pA
ConcInputs == PlainInputs({"d1"}, {"a.txt"}, {"c1", "c2"}, {"pA"})

\* two callers of one Datastore, their steps interleaved
ConcNext ==
    \/ NewDatastore
    \/ \E p \in Procs : Ingest_Start(p, ConcInputs)
    \/ \E p \in Procs : Ingest_GetDataset(p)
    \/ \E p \in Procs : Ingest_BindConfig(p)
    \/ \E p \in Procs : Ingest_CheckModel(p)
    \/ \E p \in Procs : Ingest_StrictCheck(p)
    \/ \E p \in Procs : Ingest_SelectDedup(p)
    \/ \E p \in Procs : Ingest_Filetype(p)
    \/ \E p \in Procs : Ingest_Dedup(p)
    \/ \E p \in Procs : Ingest_LoadFlow(p)
    \/ \E p \in Procs : Ingest_Metadata(p)
    \/ \E p \in Procs : Ingest_RunFlow(p)
    \/ \E p \in Procs : Ingest_Remove(p)
    \/ \E p \in Procs : Ingest_Reuse(p)
    \/ \E p \in Procs : Ingest_Add(p)
    \/ \E p \in Procs : Ingest_CreateFile(p)

ConcSpec == Init /\ [][ConcNext]_vars

\* The calls of ModelSpec: one file for dataset d1 and one for dataset d2
ModelInputs == PlainInputs({"d1", "d2"}, {"a.txt"}, {"c1"}, {"pA"})

\* d1 is bound to model m1 and d2 to model m2; the Datastore is configured
\* with m1 and KNOW_PREFER_NEW_EMBEDDING_MODEL is not set
ModelInit ==
    /\ datasets = [d \in ExistingIDs |->
                     [type |-> "openai", model |-> IF d = "d1" THEN "m1" ELSE "m2"]]
    /\ files = {}
    /\ vstore = {}
    /\ provider = [type |-> "openai", model |-> "m1"]
    /\ preferNew = FALSE
    /\ strict \in BOOLEAN
    /\ ncalls = 0
    /\ call = [p \in Procs |-> IdleCall]
    /\ lastOK = [d \in ExistingIDs |-> [a \in Paths |-> ""]]
    /\ post = NoPost
    /\ adds = NoAdds
    /\ colls = NoColls
    /\ search = NoSearch
    /\ flowConfig = NoFlowConfig
    /\ xfer = NoXfer

\* two callers of one Datastore, their steps interleaved
ModelNext ==
    \/ \E p \in Procs : Ingest_Start(p, ModelInputs)
    \/ \E p \in Procs : Ingest_GetDataset(p)
    \/ \E p \in Procs : Ingest_BindConfig(p)
    \/ \E p \in Procs : Ingest_CheckModel(p)
    \/ \E p \in Procs : Ingest_StrictCheck(p)
    \/ \E p \in Procs : Ingest_SelectDedup(p)
    \/ \E p \in Procs : Ingest_Filetype(p)
    \/ \E p \in Procs : Ingest_Dedup(p)
    \/ \E p \in Procs : Ingest_LoadFlow(p)
    \/ \E p \in Procs : Ingest_Metadata(p)
    \/ \E p \in Procs : Ingest_RunFlow(p)
    \/ \E p \in Procs : Ingest_Remove(p)
    \/ \E p \in Procs : Ingest_Reuse(p)
    \/ \E p \in Procs : Ingest_Add(p)
    \/ \E p \in Procs : Ingest_CreateFile(p)

ModelSpec == ModelInit /\ [][ModelNext]_vars

\* A document stored before Ingest recorded the embedding model in the
\* metadata (the case lines 232-252 of Ingest serve): it sits in dataset d2,
\* embedded under the model d2 is bound to
LegacyID == <<-1, 1>>

LegacyRow(m) ==
    [id |-> LegacyID, coll |-> "d2", content |-> "x",
     meta |-> [filename |-> "old.txt", absPath |-> "pB"],
     emb |-> Embed("x", m, LegacyID)]

LegacyFile ==
    [id |-> -1, dataset |-> "d2", name |-> "old.txt", absPath |-> "pB",
     docs |-> <<[id |-> LegacyID, index |-> 0]>>]

ReuseInit ==
    /\ datasets = [d \in ExistingIDs |->
                     IF d = "d2" THEN [type |-> "openai", model |-> "m1"] ELSE NoCfg]
    /\ vstore = {LegacyRow("m1")}
    /\ files = {LegacyFile}
    /\ provider = [type |-> "openai", model |-> "m1"]
    /\ preferNew \in BOOLEAN
    /\ strict = FALSE
    /\ ncalls = 0
    /\ call = [p \in Procs |-> IdleCall]
    /\ lastOK = [d \in ExistingIDs |-> [a \in Paths |->
                    IF d = "d2" /\ a = "pB" THEN "c1" ELSE ""]]
    /\ post = NoPost
    /\ adds = NoAdds
    /\ colls = NoColls
    /\ search = NoSearch
    /\ flowConfig = NoFlowConfig
    /\ xfer = NoXfer

\* The calls of ReuseSpec: two files of dataset d1 that share a chunk text and
\* a file of dataset d2
ReuseInputs ==
    PlainInputs({"d1"}, {"a.txt"}, {"c1"}, {"pA"})
    \cup PlainInputs({"d1"}, {"a.txt"}, {"c1", "c2"}, {"pB"})
    \cup PlainInputs({"d2"}, {"a.txt"}, {"c1"}, {"pA"})

\* calls one after the other over a store that holds an old document
ReuseNext ==
    \/ NewDatastore
    \/ \E p \in SeqProcs : Ingest_Start(p, ReuseInputs)
    \/ \E p \in SeqProcs : Ingest_GetDataset(p)
    \/ \E p \in SeqProcs : Ingest_BindConfig(p)
    \/ \E p \in SeqProcs : Ingest_CheckModel(p)
    \/ \E p \in SeqProcs : Ingest_StrictCheck(p)
    \/ \E p \in SeqProcs : Ingest_SelectDedup(p)
    \/ \E p \in SeqProcs : Ingest_Filetype(p)
    \/ \E p \in SeqProcs : Ingest_Dedup(p)
    \/ \E p \in SeqProcs : Ingest_LoadFlow(p)
    \/ \E p \in SeqProcs : Ingest_Metadata(p)
    \/ \E p \in SeqProcs : Ingest_RunFlow(p)
    \/ \E p \in SeqProcs : Ingest_Remove(p)
    \/ \E p \in SeqProcs : Ingest_Reuse(p)
    \/ \E p \in SeqProcs : Ingest_Add(p)
    \/ \E p \in SeqProcs : Ingest_CreateFile(p)

ReuseSpec == ReuseInit /\ [][ReuseNext]_vars

\* A retrieval response of one or two dataset responses reaches the
\* postprocessor; nothing is being ingested
SimInit ==
    /\ datasets = [d \in ExistingIDs |-> NoCfg]
    /\ files = {}
    /\ vstore = {}
    /\ provider = [type |-> "openai", model |-> "m1"]
    /\ preferNew = FALSE
    /\ strict = FALSE
    /\ ncalls = 0
    /\ call = [p \in Procs |-> IdleCall]
    /\ lastOK = [d \in ExistingIDs |-> [a \in Paths |-> ""]]
    /\ adds = NoAdds
    /\ colls = NoColls
    /\ search = NoSearch
    /\ flowConfig = NoFlowConfig
    /\ xfer = NoXfer
    /\ \E rs \in {<<ResultDocuments(1, a)>> : a \in ScoreLists}
                  \cup {<<ResultDocuments(1, a), ResultDocuments(2, b)>> :
                           a \in ScoreLists, b \in ScoreLists}
                  \cup {ExampleResponses},
          t \in Thresholds, k \in KeepMins :
         post = [NoPost EXCEPT !.responses = rs, !.Threshold = t, !.KeepMin = k]

SimNext == SimilarityPostprocessor_Transform

SimSpec == SimInit /\ [][SimNext]_vars

\* Two callers are at line 259 of Ingest with the chunks of a file each, for
\* the same collection; the store holds a document of another file
AddInit ==
    /\ datasets = [d \in ExistingIDs |->
                     IF d = "d1" THEN [type |-> "openai", model |-> "m1"] ELSE NoCfg]
    /\ files = {}
    /\ vstore = {OtherRow}
    /\ provider = [type |-> "openai", model |-> "m1"]
    /\ preferNew = FALSE
    /\ strict = FALSE
    /\ ncalls = 0
    /\ call = [p \in Procs |-> IdleCall]
    /\ lastOK = [d \in ExistingIDs |-> [a \in Paths |-> ""]]
    /\ post = NoPost
    /\ \E n \in EmbeddingConcurrencies : adds = IdleAdds(n)
    /\ colls = NoColls
    /\ search = NoSearch
    /\ flowConfig = NoFlowConfig
    /\ xfer = NoXfer

AddNext ==
    \/ \E p \in Procs : Ingest_CallAddDocuments(p)
    \/ \E p \in Procs : AddDocuments_Start(p)
    \/ \E p \in Procs : Cancel(p)
    \/ \E p \in Procs : \E i \in DOMAIN adds[p].g : Goroutine_Begin(p, i)
    \/ \E p \in Procs : \E i \in DOMAIN adds[p].g : Goroutine_Acquire(p, i)
    \/ \E p \in Procs : \E i \in DOMAIN adds[p].g : Goroutine_Embed(p, i)
    \/ \E p \in Procs : \E i \in DOMAIN adds[p].g : Goroutine_CheckErr(p, i)
    \/ \E p \in Procs : \E i \in DOMAIN adds[p].g : Goroutine_Queue(p, i)
    \/ \E p \in Procs : AddDocuments_SendBatch(p)
    \/ \E p \in Procs : Ingest_RecordFile(p)

AddSpec == AddInit /\ [][AddNext]_vars

\* the state every specification below starts from, apart from its own variable
Unused ==
    /\ datasets = [d \in ExistingIDs |-> NoCfg]
    /\ files = {}
    /\ vstore = {}
    /\ provider = [type |-> "openai", model |-> "m1"]
    /\ preferNew = FALSE
    /\ strict = FALSE
    /\ ncalls = 0
    /\ call = [p \in Procs |-> IdleCall]
    /\ lastOK = [d \in ExistingIDs |-> [a \in Paths |-> ""]]
    /\ post = NoPost
    /\ adds = NoAdds

\* Three callers create collections in a store that has none
CollInit ==
    /\ Unused
    /\ colls = NoColls
    /\ search = NoSearch
    /\ flowConfig = NoFlowConfig
    /\ xfer = NoXfer

CollNext ==
    \/ \E p \in Creators : CreateCollection_Begin(p)
    \/ \E p \in Creators : CreateCollection_Lock(p)
    \/ \E p \in Creators : CreateCollection_Insert(p)
    \/ \E p \in Creators : CreateCollection_Commit(p)

CollSpec == CollInit /\ [][CollNext]_vars

\* One SimilaritySearch on a table of some of the rows
SearchInit ==
    /\ Unused
    /\ colls = NoColls
    /\ \E rows \in SUBSET SearchRows, q \in QueryEmbeddings, n \in NumDocuments,
          c \in ExistingIDs, w \in Wheres :
         search = [NoSearch EXCEPT !.rows = rows, !.queryEmbedding = q,
                                   !.numDocuments = n, !.collection = c, !.where = w]
    /\ flowConfig = NoFlowConfig
    /\ xfer = NoXfer

SearchNext == VectorStore_SimilaritySearch

SearchSpec == SearchInit /\ [][SearchNext]_vars

\* Validate on a config of up to two flows
ValidateInit ==
    /\ Unused
    /\ colls = NoColls
    /\ search = NoSearch
    /\ \E names \in SUBSET FlowNames : \E flows \in [names -> FlowConfigEntries] :
         flowConfig = [NoFlowConfig EXCEPT !.Flows = flows]
    /\ xfer = NoXfer

ValidateNext == FlowConfig_Validate

ValidateSpec == ValidateInit /\ [][ValidateNext]_vars

\* An export of some datasets of a store holding up to two documents,
\* then the import of the file into an empty store
XferInit ==
    /\ Unused
    /\ colls = NoColls
    /\ search = NoSearch
    /\ flowConfig = NoFlowConfig
    /\ \E used \in SUBSET {"i1", "i2"} : \E row \in [used -> XferRows] :
       \E ids \in SUBSET {"d1", "d2"} :
         /\ \A i \in used : row[i].id = i
         /\ xfer = [NoXfer EXCEPT !.source = {row[i] : i \in used}, !.datasets = ids]

XferNext == StandaloneClient_ExportDatasets \/ StandaloneClient_ImportDatasets

XferSpec == XferInit /\ [][XferNext]_vars

\* One AddDocuments call after the other, with the scheduling Go gives: a
\* goroutine that can take a step takes it, and every embedding call returns
ChunkIndexes == {1, 2}

AddSeqNext ==
    \/ \E p \in SeqProcs : Ingest_CallAddDocuments(p)
    \/ \E p \in SeqProcs : AddDocuments_Start(p)
    \/ \E p \in SeqProcs : Cancel(p)
    \/ \E p \in SeqProcs : \E i \in DOMAIN adds[p].g : Goroutine_Begin(p, i)
    \/ \E p \in SeqProcs : \E i \in DOMAIN adds[p].g : Goroutine_Acquire(p, i)
    \/ \E p \in SeqProcs : \E i \in DOMAIN adds[p].g : Goroutine_Embed(p, i)
    \/ \E p \in SeqProcs : \E i \in DOMAIN adds[p].g : Goroutine_CheckErr(p, i)
    \/ \E p \in SeqProcs : \E i \in DOMAIN adds[p].g : Goroutine_Queue(p, i)
    \/ \E p \in SeqProcs : AddDocuments_SendBatch(p)
    \/ \E p \in SeqProcs : Ingest_RecordFile(p)

AddFairness ==
    \A p \in SeqProcs :
        /\ WF_vars(AddDocuments_Start(p))
        /\ WF_vars(AddDocuments_SendBatch(p))
        /\ \A i \in ChunkIndexes :
              /\ WF_vars(i \in DOMAIN adds[p].g /\ Goroutine_Begin(p, i))
              /\ WF_vars(i \in DOMAIN adds[p].g /\ Goroutine_Acquire(p, i))
              /\ WF_vars(i \in DOMAIN adds[p].g /\ Goroutine_Embed(p, i))
              /\ WF_vars(i \in DOMAIN adds[p].g /\ Goroutine_CheckErr(p, i))
              /\ WF_vars(i \in DOMAIN adds[p].g /\ Goroutine_Queue(p, i))

AddFairSpec == AddInit /\ [][AddSeqNext]_vars /\ AddFairness

TypeOK ==
    /\ ncalls \in 0..MaxCalls
    /\ provider \in Configs

----------------------------------------------------------------------------
(* Properties *)

Done(p)      == call[p].pc = "done"
Returned(p)  == Done(p) /\ call[p].res.err = ""
Ingested(p)  == Returned(p) /\ call[p].res.ids # <<>>
OwnRows(p)   == {r \in vstore : r.id[1] = call[p].id}
Texts(rows)  == {r.content : r \in rows}
PastStrict   == {"selectDedup", "filetype", "dedup", "loadFlow", "metadata", "runFlow",
                 "remove", "reuse", "add", "createFile"}

\* C1: re-ingesting unchanged content at the same path into the same dataset
\* with the default policy leaves the number of vector-store documents and of
\* index File records of that path as they were, and the same chunk texts.
C1_ReingestReplaces ==
    \A p \in Procs :
      (Ingested(p) /\ call[p].reingest /\ call[p].isDuplicate = "DedupeUpsert") =>
        LET d == call[p].datasetID
            a == call[p].fm
        IN  /\ Cardinality(RowsFor(vstore, d, a)) = Cardinality(RowsFor(call[p].snapV, d, a))
            /\ Texts(RowsFor(vstore, d, a)) = Texts(RowsFor(call[p].snapV, d, a))
            /\ Cardinality(FilesFor(files, d, a)) = Cardinality(FilesFor(call[p].snapF, d, a))

\* C2: after an Ingest that returned without error and was not skipped as a
\* duplicate, every document stored for its path was produced by that call.
C2_NoStaleChunks ==
    \A p \in Procs :
      (Returned(p) /\ call[p].isDupe = "false") =>
        RowsFor(vstore, call[p].datasetID, call[p].fm) \subseteq OwnRows(p)

\* C3: once two concurrent Ingest calls for the same dataset and path have
\* both returned their IDs, the store holds for the path the chunks of exactly
\* one of them.
C3_SamePathExclusive ==
    \A p, q \in Procs :
      (p # q /\ Ingested(p) /\ Ingested(q)
         /\ call[p].datasetID = call[q].datasetID /\ call[p].fm = call[q].fm) =>
        \E w \in {p, q} :
          /\ RowsFor(vstore, call[p].datasetID, call[p].fm) = OwnRows(w)
          /\ OwnRows(w) # {}

\* C4: an Ingest of a path ingested before that fails in the flow, the removal
\* or AddDocuments leaves the earlier documents of the path in the store and
\* stores none of its own.
C4_FailureKeepsOldDocs ==
    \A p \in Procs :
      (/\ Done(p)
       /\ call[p].res.err \in {ErrFlow, ErrRemove, ErrAddDocuments}
       /\ RowsFor(call[p].snapV, call[p].datasetID, call[p].fm) # {}) =>
        /\ RowsFor(call[p].snapV, call[p].datasetID, call[p].fm) \subseteq vstore
        /\ OwnRows(p) = {}

\* C5: when Index.CreateFile fails Ingest returns an error and no IDs and the
\* documents just added stay in the store; the error differs from that of an
\* AddDocuments failure, after which none of the call's documents is stored.
C5_IndexFailureSurfaced ==
    \A p \in Procs :
      Done(p) =>
        /\ call[p].res.err = ErrCreateFile =>
              /\ call[p].res.ids = <<>>
              /\ OwnRows(p) # {}
              /\ OwnRows(p) = RowsFor(vstore, call[p].datasetID, call[p].fm)
              /\ FilesFor(files, call[p].datasetID, call[p].fm)
                    = FilesFor(call[p].snapF, call[p].datasetID, call[p].fm)
        /\ call[p].res.err = ErrAddDocuments => OwnRows(p) = {}

C5_Witness ==
    \E p \in Procs :
      Done(p) /\ call[p].res.err = ErrCreateFile /\ Cardinality(OwnRows(p)) = 2

\* C6: when the deduplication policy answers true, Ingest returns (nil, nil)
\* and the index files and the vector-store documents are as before the call.
C6_DuplicateIsNoOp ==
    \A p \in Procs :
      (call[p].pc \in {"done", "panic"} /\ call[p].isDupe = "true") =>
        /\ call[p].pc = "done"
        /\ call[p].res = OkRes(<<>>)
        /\ files = call[p].snapF
        /\ vstore = call[p].snapV

C6_Witness ==
    \E p \in Procs :
      /\ Done(p) /\ call[p].isDupe = "true"
      /\ RowsFor(vstore, call[p].datasetID, call[p].fm) # {}
      /\ call[p].isDuplicate = "AlwaysDuplicate"

\* C7: a file the selected policy reports as a duplicate makes Ingest return
\* (nil, nil), whatever its name and content.
C7_DedupBeforeParsing ==
    \A p \in Procs :
      (Done(p) /\ IsDuplicate(call[p].isDuplicate) = "true") =>
        call[p].res = OkRes(<<>>)

\* C8: an Ingest into a dataset without embedding config attaches the
\* provider's config, every call past the binding step finds the dataset
\* bound, and an attached config never changes.
C8_BindingPermanent ==
    [][/\ \A d \in ExistingIDs :
            /\ datasets[d] # NoCfg => datasets'[d] = datasets[d]
            /\ (datasets[d] = NoCfg /\ datasets'[d] # NoCfg) => datasets'[d] = provider
       /\ \A p \in Procs :
            (call[p].pc = "bind" /\ call'[p].pc = "checkModel") =>
               /\ datasets'[call[p].datasetID] # NoCfg
               /\ call'[p].ds = datasets'[call[p].datasetID]]_vars

C8_Witness ==
    \E p \in Procs :
      /\ call[p].pc = "createFile"
      /\ call[p].id > 1
      /\ datasets[call[p].datasetID] # call[p].configured
      /\ provider # datasets[call[p].datasetID]

C10_StrictMismatchFatal ==
    \A p \in Procs :
      (strict /\ call[p].ds # NoCfg /\ call[p].configured # call[p].ds) =>
        /\ call[p].pc \notin PastStrict
        /\ Done(p) => /\ call[p].res.err # ""
                      /\ vstore = call[p].snapV
                      /\ files = call[p].snapF

\* the documents of other files, stored before the call of p, that have the
\* content of r and name its model in their metadata
PriorSame(p, r) ==
    {a \in call[p].snapV :
        /\ a.content = r.content
        /\ ~(a.coll = r.coll /\ a.meta.absPath = r.meta.absPath)
        /\ "embeddingModel" \in DOMAIN a.meta
        /\ a.meta.embeddingModel = r.meta.embeddingModel}

\* C11: with ReuseEmbeddings, a chunk whose content another file already
\* stored under the same embedding model is added without invoking the
\* embedding function, and its stored vector equals the vector stored for
\* that content (lookups that fail aside, which fall back to embedding).
C11_ReuseSkipsEmbedding ==
    \A p \in Procs : \A r \in OwnRows(p) :
      (r.id[2] \in call[p].lookedUp /\ PriorSame(p, r) # {}) =>
        /\ r.emb.by # r.id
        /\ r.emb \in {a.emb : a \in {x \in call[p].snapV :
                                        /\ x.content = r.content
                                        /\ x.emb.model = r.meta.embeddingModel}}
        /\ Cardinality({a.emb : a \in PriorSame(p, r)}) = 1
             => r.emb \in {a.emb : a \in PriorSame(p, r)} \cup {LegacyRow(r.emb.model).emb}

C11_Witness ==
    \E p \in Procs :
      /\ Ingested(p)
      /\ Cardinality(OwnRows(p)) = 2
      /\ \E r \in OwnRows(p) :
            /\ r.id[2] \in call[p].lookedUp
            /\ PriorSame(p, r) # {}
            /\ r.emb \in {a.emb : a \in PriorSame(p, r)}
      /\ \E r \in OwnRows(p) : r.emb.by = r.id

\* Ingest, lines 221-252: the condition under which an existing document
\* lends its embedding
SameModel(r) ==
    IF "embeddingModel" \in DOMAIN r.meta
    THEN r.meta.embeddingModel = provider.model
    ELSE datasets[r.coll].model = provider.model

\* C12: after the reuse step a chunk has an embedding only if a stored
\* document of the same content lends it whose embeddingModel metadata (or,
\* without that metadata, whose dataset's bound model) is the model in use,
\* the vector was computed under that model, content and metadata of the
\* chunk are untouched, and a chunk without such a document has none.
C12_ReuseOnlySameModel ==
    \A p \in Procs :
      call[p].pc = "add" =>
        \A i \in DOMAIN call[p].docs :
          LET d == call[p].docs[i]
          IN  /\ [d EXCEPT !.emb = NoEmb] = SortAndEnsureDocIndex(MakeDocs(call[p]))[i]
              /\ d.emb # NoEmb =>
                    /\ \E r \in vstore :
                          r.content = d.content /\ r.emb = d.emb /\ SameModel(r)
                    /\ d.emb.model = provider.model
              /\ (\A r \in vstore : r.content = d.content => ~SameModel(r))
                    => d.emb = NoEmb

C12_Witness ==
    \E p \in Procs :
      /\ call[p].pc = "add"
      /\ \E i \in DOMAIN call[p].docs :
            /\ call[p].docs[i].emb.by = LegacyID
            /\ \E r \in vstore :
                  /\ r.content = call[p].docs[i].content
                  /\ "embeddingModel" \in DOMAIN r.meta
                  /\ r.meta.embeddingModel # provider.model

Min(a, b) == IF a <= b THEN a ELSE b
Max(a, b) == IF a >= b THEN a ELSE b

SortedDescending(docs) ==
    \A j \in DOMAIN docs : \A k \in DOMAIN docs : j < k => docs[j].score >= docs[k].score

AtOrAbove(docs, t) == {j \in DOMAIN docs : docs[j].score >= t}

\* C13: for a response sorted by descending score Transform returns the
\* prefix of length max(number of documents at or above Threshold,
\* min(KeepMin, n)); the five documents 0.9 .. 0.1 with threshold 0.6 give
\* three documents for KeepMin 3 and two for KeepMin 1.
C13_SortedPrefix ==
    post.done =>
      \A i \in DOMAIN post.responses :
        LET docs == post.responses[i]
            keep == Max(Cardinality(AtOrAbove(docs, post.Threshold)),
                        Min(post.KeepMin, Len(docs)))
        IN  SortedDescending(docs) => post.out[i] = SubSeq(docs, 1, keep)

C13_Witness ==
    /\ post.done
    /\ post.responses = ExampleResponses
    /\ post.Threshold = 6
    /\ post.KeepMin = 3
    /\ post.out = <<ResultDocuments(1, <<9, 7, 5>>)>>

\* the place of a document in a list (0: not in it)
Position(doc, docs) ==
    IF \E j \in DOMAIN docs : docs[j] = doc
    THEN CHOOSE j \in DOMAIN docs : docs[j] = doc
    ELSE 0

\* C14: whatever the order of the input, the result of every response is a
\* subsequence of that response's own documents in their input order, holds
\* at least min(KeepMin, n) of them and is what Transform returns for that
\* response alone.
C14_PerResponseSubsequence ==
    post.done =>
      /\ DOMAIN post.out = DOMAIN post.responses
      /\ \A i \in DOMAIN post.responses :
            LET docs == post.responses[i]
                res == post.out[i]
            IN  /\ \A k \in DOMAIN res : Position(res[k], docs) > 0
                /\ \A k \in DOMAIN res : \A l \in DOMAIN res :
                      k < l => Position(res[k], docs) < Position(res[l], docs)
                /\ Len(res) >= Min(post.KeepMin, Len(docs))
                /\ res = Transform(<<docs>>, post.Threshold, post.KeepMin)[1]

C14_Witness ==
    /\ post.done
    /\ Len(post.responses) = 2
    /\ ~SortedDescending(post.responses[2])
    /\ Len(post.out[1]) = 3
    /\ Len(post.out[2]) = 2
    /\ Len(post.responses[2]) = 3
    /\ post.out[2][1].score < post.Threshold
    /\ post.KeepMin = 1

\* the embedding AddDocuments has to store for a document: the one the
\* document brings, or the one computed from its content
ExpectedEmbedding(doc) ==
    IF doc.emb # NoEmb THEN doc.emb ELSE Embed(doc.content, provider.model, doc.id)

\* the rows a call has to write for its documents
RowsOf(p) ==
    {[id |-> adds[p].docs[i].id, coll |-> adds[p].c.datasetID,
      content |-> adds[p].docs[i].content, meta |-> adds[p].docs[i].meta,
      emb |-> ExpectedEmbedding(adds[p].docs[i])] : i \in DOMAIN adds[p].docs}

\* C15: the Documents of a recorded File have Index 0..n-1 in the order of
\* the chunks, and Document i carries the ID of the row that holds chunk i,
\* in whatever order the goroutines queued the rows.
C15_FileDocumentsInChunkOrder ==
    \A p \in Procs : \A f \in files :
        f.id = adds[p].c.id =>
          LET texts == SplitTexts(adds[p].c.content)
          IN  /\ DOMAIN f.docs = DOMAIN texts
              /\ \A i \in DOMAIN f.docs :
                    /\ f.docs[i].index = i - 1
                    /\ \E r \in vstore : r.id = f.docs[i].id /\ r.content = texts[i]
                    /\ \A r \in vstore : r.id = f.docs[i].id => r.content = texts[i]

C15_Witness ==
    \E p \in Procs : \E f \in files :
        /\ f.id = adds[p].c.id
        /\ Len(f.docs) = 2
        /\ adds[p].b[1].id = adds[p].docs[2].id
        /\ adds[p].b[2].id = adds[p].docs[1].id

\* C20: concurrent AddDocuments calls and their goroutines do not corrupt
\* rows: the store holds exactly the rows it had plus, for every call whose
\* batch was sent, one row per input document with that document's ID,
\* content, metadata and embedding; every document of such a call was queued
\* exactly once.
C20_ConcurrentAddsKeepRowsIntact ==
    /\ vstore = {OtherRow} \cup UNION {RowsOf(p) : p \in {q \in Procs : adds[q].sent}}
    /\ \A p \in Procs :
          adds[p].sent =>
            \A i \in DOMAIN adds[p].docs :
                Cardinality({k \in DOMAIN adds[p].b : adds[p].b[k].id = adds[p].docs[i].id}) = 1
    /\ \A p \in Procs : \A k \in DOMAIN adds[p].b :
          \E i \in DOMAIN adds[p].docs :
              /\ adds[p].b[k].id = adds[p].docs[i].id
              /\ adds[p].b[k].content = adds[p].docs[i].content
              /\ adds[p].b[k].meta = adds[p].docs[i].meta
              /\ adds[p].b[k].vec \in {ExpectedEmbedding(adds[p].docs[i]), NoEmb}

C20_Witness ==
    /\ \A p \in Procs : adds[p].sent /\ Len(adds[p].docs) = 2
    /\ adds[1].b[1].id = adds[1].docs[2].id
    /\ adds[2].docs[1].emb = OtherRow.emb
    /\ Cardinality(vstore) = 5

\* the keys Ingest sets itself
ProtectedKeys == {"filename", "absPath", "fileSize", "embeddingModel"}

\* C16: the metadata of every chunk holds filename, absPath, fileSize and
\* embeddingModel with the values of the call, whatever keys the caller's
\* ExtraMetadata has; the caller's other keys are kept.
C16_MetadataProtected ==
    /\ \A p \in Procs : \A i \in DOMAIN call[p].docs :
          LET m == call[p].docs[i].meta
          IN  /\ ProtectedKeys \subseteq DOMAIN m
              /\ m["filename"] = call[p].filename
              /\ m["absPath"] = call[p].fm
              /\ m["fileSize"] = SizeOf(call[p].fm)
              /\ m["embeddingModel"] = call[p].metaModel
              /\ \A k \in DOMAIN call[p].extra \ ProtectedKeys : m[k] = call[p].extra[k]
    /\ \A r \in vstore :
          /\ ProtectedKeys \subseteq DOMAIN r.meta
          /\ r.meta["filename"] \in Filenames \ {""}
          /\ r.meta["absPath"] \in Paths
          /\ r.meta["fileSize"] = SizeOf(r.meta["absPath"])
          /\ r.meta["embeddingModel"] \in Models

C16_Witness ==
    \E r \in vstore :
        /\ "tag" \in DOMAIN r.meta
        /\ r.meta["tag"] = EvilExtra["tag"]
        /\ r.meta["filename"] = "a.txt"
        /\ r.meta["embeddingModel"] \in Models

C18_ZeroChunksIsNoOp ==
    [][\A p \in Procs :
          (/\ call[p].pc = "runFlow"
           /\ ~FlowFails(call[p].content)
           /\ SplitTexts(call[p].content) = <<>>
           /\ call'[p] # call[p]) =>
             /\ call'[p].pc = "done"
             /\ call'[p].res = OkRes(<<>>)
             /\ vstore' = call[p].snapV
             /\ files' = call[p].snapF]_vars

C18_Witness ==
    \E p \in Procs :
        /\ Done(p)
        /\ call[p].res = OkRes(<<>>)
        /\ call[p].isDupe = "false"
        /\ RowsFor(vstore, call[p].datasetID, call[p].fm) # {}

\* C19: Ingest into a dataset that does not exist fails, with the
\* dataset-not-found error unless the lookup itself failed, creates no
\* dataset and leaves the vector store and the files of the index as they
\* were before the call.
C19_MissingDatasetFails ==
    [][\A p \in Procs :
          (/\ call[p].pc = "getDataset"
           /\ call[p].datasetID \notin DOMAIN datasets
           /\ call'[p] # call[p]) =>
             /\ call'[p].pc = "done"
             /\ call'[p].res \in {ErrRes(ErrNotFound), ErrRes("failed to get dataset")}
             /\ datasets' = datasets
             /\ vstore' = call[p].snapV
             /\ files' = call[p].snapF]_vars

C19_Witness ==
    \E p \in Procs :
        /\ Done(p)
        /\ call[p].datasetID \notin DOMAIN datasets
        /\ call[p].res = ErrRes(ErrNotFound)
        /\ vstore # {}

\* the goroutines of a call that hold a slot of the semaphore
Holders(p) == {i \in DOMAIN adds[p].g : adds[p].g[i].pc \in {"embed", "checkErr", "queue"}}

\* the goroutines of a call whose embedding call returned an error
EmbedFailed(p) == {i \in DOMAIN adds[p].g : adds[p].g[i].embErr = "failed"}

\* the documents of a call that are in its batch
Queued(p) == {i \in DOMAIN adds[p].docs :
                \E k \in DOMAIN adds[p].b : adds[p].b[k].id = adds[p].docs[i].id}

\* C26: when an embedding call of an AddDocuments call returned an error, the
\* call returns an error without sending a batch and without inserting a row;
\* no INSERT is queued with an empty vector; a goroutine whose own embedding
\* call succeeded queues its document.
C26_EmbeddingFailureAllOrNothing ==
    \A p \in Procs :
        /\ \A k \in DOMAIN adds[p].b : adds[p].b[k].vec # NoEmb
        /\ (/\ EmbedFailed(p) # {}
            /\ adds[p].pc = "wait"
            /\ \A i \in DOMAIN adds[p].g : adds[p].g[i].pc = "done")
              => adds[p].sharedErr # "nil"
        /\ (EmbedFailed(p) # {} /\ adds[p].pc \in {"createFile", "done"})
              => (~adds[p].sent /\ adds[p].res = ErrRes(ErrAddDocuments))
        /\ \A i \in DOMAIN adds[p].g :
              (adds[p].g[i].embErr = "nil" /\ adds[p].g[i].pc = "done") => i \in Queued(p)

\* C28: the goroutines of a call that hold the semaphore are never more than
\* embeddingConcurrency, so no more embedding calls than that are in flight.
C28_SemaphoreBoundsEmbedding ==
    \A p \in Procs :
        /\ adds[p].semaphore = Cardinality(Holders(p))
        /\ adds[p].semaphore <= adds[p].embeddingConcurrency
        /\ Cardinality({i \in DOMAIN adds[p].g : adds[p].g[i].pc = "embed"})
              <= adds[p].embeddingConcurrency

C28_Witness ==
    \E p \in Procs :
        /\ adds[p].embeddingConcurrency = 1
        /\ Len(adds[p].g) = 2
        /\ adds[p].g[2].pc = "embed"
        /\ adds[p].g[1].pc = "acquire"

\* C29: an AddDocuments call that started its goroutines returns, whatever
\* the number of documents and the embedding concurrency.
C29_AddDocumentsTerminates ==
    \A p \in SeqProcs :
        (adds[p].pc = "wait") ~> (adds[p].pc \in {"createFile", "done"})

\* the stages of Ingest from the duplicate check on, each with the positions
\* a call can be at next
StageSuccessors ==
    [dedup      |-> {"loadFlow", "done"},
     loadFlow   |-> {"metadata", "done", "panic"},
     metadata   |-> {"runFlow", "panic"},
     runFlow    |-> {"remove", "done"},
     remove     |-> {"reuse", "done"},
     reuse      |-> {"add"},
     add        |-> {"createFile", "done"},
     createFile |-> {"done"}]

\* C25: a call passes the stages in the order duplicate check, flow,
\* removal, reuse lookup, AddDocuments, CreateFile; when it comes to the reuse
\* lookup the store holds no document of its path in its dataset, and an
\* embedding it takes over is one of a document in the store then; rows are
\* removed only by the removal stage and added only by AddDocuments; a File
\* is recorded only by a call whose documents AddDocuments has stored.
C25_StagesInOrder ==
    [][/\ \A p \in Procs :
            /\ (call[p].pc \in DOMAIN StageSuccessors /\ call'[p].pc # call[p].pc)
                  => call'[p].pc \in StageSuccessors[call[p].pc]
            /\ (call[p].pc # "reuse" /\ call'[p].pc = "reuse")
                  => /\ call[p].pc = "remove"
                     /\ RowsFor(vstore', call[p].datasetID, call[p].fm) = {}
            /\ (call[p].pc = "reuse" /\ call'[p].pc = "add")
                  => \A i \in DOMAIN call'[p].docs :
                        call'[p].docs[i].emb \in
                           {NoEmb} \cup {r.emb : r \in vstore \ RowsFor(vstore, call[p].datasetID,
                                                                        call[p].fm)}
       /\ ~(vstore' \subseteq vstore) => \E p \in Procs : call[p].pc = "add"
       /\ ~(vstore \subseteq vstore') => \E p \in Procs : call[p].pc = "remove"
       /\ files' # files =>
             \E p \in Procs :
                /\ call[p].pc = "createFile"
                /\ \A i \in DOMAIN call[p].docs :
                      \E r \in vstore : r.id = call[p].docs[i].id]_vars

C25_Witness ==
    \E p \in Procs :
        /\ call[p].pc = "add"
        /\ call[p].reingest
        /\ call[p].lookedUp = DOMAIN call[p].docs
        /\ \A i \in DOMAIN call[p].docs : call[p].docs[i].emb = NoEmb
        /\ \E r \in RowsFor(call[p].snapV, call[p].datasetID, call[p].fm) :
              /\ r.content = call[p].docs[1].content
              /\ r.meta["embeddingModel"] = provider.model

\* C30: an Ingest call without FileMetadata ends in a result or an error,
\* never in a fault.
C30_NilFileMetadataNoFault ==
    \A p \in Procs : call[p].fm = NilFM => call[p].pc # "panic"

\* the callers that asked for a name, and those of them that got nil
CallersOf(n) == {p \in Creators : colls.tx[p].collection = n}
NilOf(n) == {p \in CallersOf(n) : colls.tx[p].res = "nil"}

\* C21: whatever the interleaving of concurrent CreateCollection calls, the
\* table never has two rows of one name and has one as soon as a call for the
\* name returned nil; a call returns the already-exists error only with
\* ErrOnExists set; of the calls with ErrOnExists set at most one returns
\* nil, the one that inserted the row, and when all callers of a name set it
\* and the database did not fail, exactly one returned nil.
C21_CreateCollectionSerialized ==
    /\ Cardinality({p \in Creators : colls.tx[p].pc \in {"insert", "commit"}}) <= 1
    /\ \A n \in CollNames :
          /\ Cardinality({r \in colls.rows : r.name = n}) <= 1
          /\ NilOf(n) # {} => Cardinality({r \in colls.rows : r.name = n}) = 1
          /\ Cardinality({p \in NilOf(n) : colls.tx[p].ErrOnExists}) <= 1
          /\ \A p \in NilOf(n) :
                colls.tx[p].ErrOnExists => [uuid |-> p, name |-> n] \in colls.rows
          /\ (/\ CallersOf(n) # {}
              /\ \A p \in CallersOf(n) :
                    /\ colls.tx[p].pc = "done"
                    /\ colls.tx[p].ErrOnExists
                    /\ colls.tx[p].res # "failed")
                => Cardinality(NilOf(n)) = 1
    /\ \A p \in Creators :
          /\ colls.tx[p].res = "exists" => colls.tx[p].ErrOnExists
          /\ (colls.tx[p].pc = "done" /\ ~colls.tx[p].ErrOnExists)
                => colls.tx[p].res \in {"nil", "failed"}

C21_Witness ==
    /\ \A p \in Creators :
          /\ colls.tx[p].pc = "done"
          /\ colls.tx[p].collection = "n1"
          /\ colls.tx[p].ErrOnExists
    /\ colls.tx[2].res = "nil"
    /\ colls.tx[1].res = "exists"
    /\ colls.tx[3].res = "exists"
    /\ colls.rows = {[uuid |-> 2, name |-> "n1"]}

\* the row of the table a returned document was read from
RowOf(doc) == CHOOSE r \in search.rows : r.id = doc.id

\* C22: a search that answers returns the numDocuments most similar rows of
\* the collection that match the where clause (all of them when there are
\* fewer), each once, with the score 1 - cosine distance to the query, in
\* descending order of the score, which is the order the similarity
\* postprocessor assumes.
C22_SearchSortedByScore ==
    (search.done /\ search.err = "") =>
      LET docs == search.docs
          data == SearchData(search.rows, search.queryEmbedding, search.collection,
                             search.where)
          ids  == {docs[k].id : k \in DOMAIN docs}
      IN  /\ Len(docs) <= search.numDocuments
          /\ Len(docs) = IF Cardinality(data) < search.numDocuments
                         THEN Cardinality(data) ELSE search.numDocuments
          /\ Cardinality(ids) = Len(docs)
          /\ \A k \in DOMAIN docs :
                /\ \E r \in search.rows : r.id = docs[k].id
                /\ RowOf(docs[k]).coll = search.collection
                /\ MatchesWhere(RowOf(docs[k]).meta, search.where)
                /\ docs[k].meta = RowOf(docs[k]).meta
                /\ docs[k].score =
                     25 - CosineDistance(RowOf(docs[k]).embedding, search.queryEmbedding)
          /\ SortedDescending(docs)
          /\ \A r \in data : r.id \notin ids =>
                \A k \in DOMAIN docs :
                    docs[k].score >= 25 - CosineDistance(r.embedding, search.queryEmbedding)

C22_Witness ==
    /\ search.done /\ search.err = ""
    /\ search.rows = SearchRows
    /\ search.collection = "d1"
    /\ search.where = [tag |-> "a"]
    /\ search.queryEmbedding = <<3, 4>>
    /\ search.numDocuments = 2
    /\ Len(search.docs) = 2
    /\ search.docs[1].id = 2 /\ search.docs[1].score = 25
    /\ search.docs[2].id = 4 /\ search.docs[2].score = 20

\* the four rules of a valid FlowConfig
AtMostOneDefault(flows) == Cardinality({n \in DOMAIN flows : flows[n].Default}) <= 1
IngestionOrRetrieval(flows) ==
    \A n \in DOMAIN flows : Len(flows[n].Ingestion) > 0 \/ flows[n].Retrieval # "nil"
FiletypesListed(flows) ==
    \A n \in DOMAIN flows : \A i \in DOMAIN flows[n].Ingestion :
        Len(flows[n].Ingestion[i].Filetypes) >= 1
ConverterHasTarget(flows) ==
    \A n \in DOMAIN flows : \A i \in DOMAIN flows[n].Ingestion :
        flows[n].Ingestion[i].Converter.Name # ""
           => flows[n].Ingestion[i].Converter.TargetFormat # ""

\* C23: Validate returns nil exactly when at most one flow is the default,
\* every flow has an ingestion entry or a retrieval config, every ingestion
\* entry lists a filetype and every entry with a converter names a target
\* format; the error it returns is that of a rule that is broken.
C23_ValidateExactlyFourRules ==
    flowConfig.done =>
      LET flows == flowConfig.Flows
      IN  /\ flowConfig.err = "" <=>
                /\ AtMostOneDefault(flows)
                /\ IngestionOrRetrieval(flows)
                /\ FiletypesListed(flows)
                /\ ConverterHasTarget(flows)
          /\ flowConfig.err = "multiple flows are marked as default"
                => ~AtMostOneDefault(flows)
          /\ flowConfig.err = "neither ingestion nor retrieval specified"
                => ~IngestionOrRetrieval(flows)
          /\ flowConfig.err = "no filetypes specified" => ~FiletypesListed(flows)
          /\ flowConfig.err = "converter.targetFormat is required"
                => ~ConverterHasTarget(flows)

C23_Witness ==
    /\ flowConfig.done
    /\ flowConfig.err = ""
    /\ DOMAIN flowConfig.Flows = FlowNames
    /\ flowConfig.Flows["f1"].Default /\ ~flowConfig.Flows["f2"].Default
    /\ Len(flowConfig.Flows["f1"].Ingestion) = 2
    /\ flowConfig.Flows["f1"].Ingestion[2].Converter.Name = "soffice"
    /\ flowConfig.Flows["f2"].Ingestion = <<>>
    /\ flowConfig.Flows["f2"].Retrieval = "set"

\* the (path, chunk content, metadata) tuples of a set of documents
Tuples(rows) == {<<r.path, r.content, r.meta>> : r \in rows}

\* C24: after a dataset is exported to a file and the file is imported into
\* an empty store, the target holds the same (path, chunk content, metadata)
\* tuples as the exported datasets of the source, whatever the document ids
C24_ExportImportRoundTrip ==
    xfer.pc = "imported"
        => Tuples(xfer.target)
             = Tuples({r \in xfer.source : r.dataset \in xfer.datasets})

\* C27: when calls run concurrently on one Datastore into datasets bound to
\* different embedding models, every call tags its documents with the model
\* of its own dataset and every stored document is tagged with and embedded
\* under the model of its dataset
C27_ConcurrentCallsUseOwnModel ==
    /\ \A p \in Procs :
         call[p].metaModel # "" => call[p].metaModel = call[p].ds.model
    /\ \A r \in vstore :
         /\ r.meta.embeddingModel = datasets[r.coll].model
         /\ r.emb.model = datasets[r.coll].model

====
